---- MODULE Spec2Model ----
(***************************************************************************)
(* Reconciliation engines of the syncer repository.                        *)
(*                                                                         *)
(*   carddav-google-contacts/sync.py   CardDAV <-> Google Contacts         *)
(*   vtodo-notion/sync.py              CalDAV VTODO <-> Notion             *)
(*                                                                         *)
(* Part I models the contacts engine: the two remote stores, the sqlite    *)
(* table `contacts` (the Link State Store) and one run of sync() as the    *)
(* sequence  StartSync, ApplyMatch*, AfterMatch, SyncUid*, SyncUnlinked*,  *)
(* FinishSync.  Part II models the task engine.                            *)
(***************************************************************************)
EXTENDS Integers, FiniteSets, Sequences, TLC

(***************************************************************************)
(* Program constants.                                                      *)
(***************************************************************************)
\* SAFETY_MIN_STATE = 50
SAFETY_MIN_STATE == 50
\* SAFETY_DELETE_PCT = 0.20, kept as the percentage 20: for integers n, k
\* the float comparison k > n * 0.20 decides exactly as 100 * k > 20 * n
\* (0.20 rounds up in binary, so n * 0.20 never falls below n / 5).
SAFETY_DELETE_PCT == 20

(***************************************************************************)
(* Bounds of the model.                                                    *)
(***************************************************************************)
\* contacts (synchronization identifiers) in the small population
MaxContacts == 2
\* runs of sync() in one behaviour
MaxRuns == 2
\* remote requests that fail for an outside reason (network, 5xx) per behaviour
MaxFails == 1
\* changes made by the users on the remotes between runs, per behaviour
MaxUserOps == 1
\* the large populations have SAFETY_MIN_STATE - 1 .. SAFETY_MIN_STATE - 1 + GuardSpan links
GuardSpan == 2

Min(S) == CHOOSE x \in S : \A y \in S : x <= y
Max(S) == CHOOSE x \in S : \A y \in S : x >= y

\* dict helpers: d without key k; d with d[k] = v
Drop(d, k) == [x \in DOMAIN d \ {k} |-> d[x]]
Put(d, k, v) == [x \in DOMAIN d \cup {k} |-> IF x = k THEN v ELSE d[x]]
EmptyDict == [x \in {} |-> 0]

(***************************************************************************)
(* Contact content.  A record of the model carries a display name only     *)
(* (no e-mail, no phone).  The names are the ones a user types, plus the   *)
(* ones the conversions produce from them.                                 *)
(***************************************************************************)
\* names a user gives a new contact
NewNames == {"", "Ann", "ann "}
\* the names a user's edit gives a contact on Google and on CardDAV
EditNameG == "Bob"
EditNameC == "Cy"

\* str.strip()
Strip(n) == IF n = "ann " THEN "ann" ELSE n
\* str.lower()
Lower(n) ==
    CASE n = "Ann" -> "ann"
      [] n = "Bob" -> "bob"
      [] n = "Cy" -> "cy"
      [] n = "Senza Nome" -> "senza nome"
      [] OTHER -> n

\* a faulty fingerprint that lacks the rule for a record without name, e-mail
\* and phone; C25 tells it from FingerprintOfName
FingerprintOfNameNeverEmpty(n) == Lower(Strip(n)) \o "||"

\* f"{name}|{email}|{phone}" with no e-mail and no phone, "" when all are empty
FingerprintOfName(n) ==
    LET name == Lower(Strip(n)) IN IF name = "" THEN "" ELSE name \o "||"

\* person: [resourceName, etag, name, ext]; ext is the vCard-UID externalId, 0 = none
fingerprint_from_google(person) == FingerprintOfName(person.name)
\* vcard: [uid, fn]
fingerprint_from_vcard(vcard) == FingerprintOfName(vcard.fn)

\* FN of the vCard built from a Google person
google_to_vcard(person, uid) ==
    [uid |-> uid,
     fn  |-> IF Strip(person.name) = "" THEN "Senza Nome" ELSE Strip(person.name)]

\* a conversion that leaves the vCard-UID externalId out of the body
vcard_to_google_no_uid(vcard, uid) == [name |-> Strip(vcard.fn), ext |-> 0]

\* body of the Google person built from a vCard: names and the vCard-UID externalId
vcard_to_google(vcard, uid) == [name |-> Strip(vcard.fn), ext |-> uid]

(***************************************************************************)
(* State.                                                                  *)
(***************************************************************************)
VARIABLES
    \* the remotes
    google,          \* Google Contacts: resourceName -> [etag, name, ext]
    carddav,         \* the addressbook: href -> [etag, uid, fn]
    \* the sqlite table `contacts`: uid -> [google_res, carddav_href, etag_google, etag_carddav, fingerprint]
    db,              \* as committed (what another connection, or the next run, reads)
    dbw,             \* as seen through the run's connection (with its uncommitted statements)
    \* sync(): position and locals
    pc,              \* "idle" | "match" | "sync"
    dry,             \* DRY_RUN of the run
    c_contacts,      \* uid -> [href, etag, vcard]
    g_linked,        \* uid -> person
    g_unlinked,      \* resourceName -> person
    c_unlinked_uids,
    matched,         \* c_uid -> resourceName, the pairs still to apply
    state,           \* load_state(db)
    all_uids,        \* the identifiers the reconciliation loop has still to visit
    g_pending,       \* the unlinked Google contacts loop 6 has still to visit
    stats,
    fresh,           \* the last value handed out as a new etag, resourceName, href or uuid4
    \* history, read by the properties only
    runs,            \* runs started
    writes,          \* requests sent to the remotes in this run: [op, side, id, ok]
    conflicts,       \* uids logged as CONFLICT in this run
    aborted,         \* the run ended in SAFETY ABORT
    db0,             \* db when the run started
    google0,         \* google when the run started
    carddav0,        \* carddav when the run started
    paired,          \* c_uid -> resourceName: the pairs the Matching Phase found in this run
    fails,           \* remote failures injected so far
    userOps,         \* user changes so far
    refused,         \* <<run, uid>>: the server answered the iteration's update with a refusal
    hist             \* per finished run, oldest first: [dry, clean, aborted, nwrites, userOps]

cvars == <<google, carddav, db, dbw, pc, dry, c_contacts, g_linked, g_unlinked,
           c_unlinked_uids, matched, state, all_uids, g_pending, stats, fresh,
           runs, writes, conflicts, aborted, db0, google0, carddav0, paired,
           fails, userOps, refused, hist>>

(***************************************************************************)
(* The state of the task engine (vtodo-notion/sync.py), Part II below.     *)
(***************************************************************************)
VARIABLES
    t_caldav,        \* the calendar "Tasks": uid -> VTODO [summary, status, rrule, due, lm]
    t_notion,        \* the database, pages that are not archived: uid -> page
                     \*   [summary, done, rrule, due, list, lm]
    t_file,          \* STATE_FILE: [caldav_modified, notion_modified], each uid -> timestamp
    t_clock,         \* [d, t]: the day and the instant of the wall clock
    t_pc,            \* "idle" | "c2n" | "n2c"
    t_state,         \* the SyncState of the run
    t_todos,         \* vtodo_lists, the VTODOs fetched when the run started
    t_uid_map,       \* notion_uid_map of sync_caldav_to_notion
    t_pages,         \* pages, fetched by sync_notion_to_caldav
    t_pending,       \* the uids the running sweep has still to visit
    circuit_breaker_errors,
    circuit_breaker_triggered,
    t_stats,         \* errors counted by the two sweeps
    \* history, read by the properties only
    t_runs,          \* runs started
    t_writes,        \* requests of this run that write: [side, op, uid, status, due, trig, ok]
    t_seen_done,     \* uids of which this run read a record that is recurring and completed
    t_warned,        \* uids for which this run logged the warning of line 706
    t_call,          \* the last call of a function under with_retry: what its attempts
                     \*   met, the breaker before it, and what the call did
    t_budget,        \* the number of failed requests the behaviour may meet
    t_notified,      \* this run has sent the notification of lines 837-841
    t_caldav0,       \* t_caldav when the run started
    t_notion0,       \* t_notion when the run started
    t_file0,         \* t_file when the run started
    t_fails,         \* remote failures injected so far
    t_userOps,       \* user changes so far
    t_hist           \* per finished run, oldest first: [nwrites, clean, userOps]

tvars == <<t_caldav, t_notion, t_file, t_clock, t_pc, t_state, t_todos, t_uid_map, t_pages,
           t_pending, circuit_breaker_errors, circuit_breaker_triggered, t_stats, t_runs,
           t_writes, t_seen_done, t_warned, t_call, t_budget, t_notified, t_caldav0, t_notion0, t_file0, t_fails, t_userOps, t_hist>>

(***************************************************************************)
(* The state of notion-backup's main() (notion-backup/backup.py), Part III *)
(* below: the result slots shared by the two workers and the main thread,  *)
(* the position of each thread, what each worker got from its track, and   *)
(* what main did after the join.                                           *)
(***************************************************************************)
VARIABLES
    results,        \* [page_count, db_count, t1_ok, t2_ok]
    b_main,         \* position of the main thread
    track1,         \* position of the thread Track1
    track2,         \* position of the thread Track2
    b_ret1,         \* what run_track1 returned to track1_worker: <<pages, dbs>>
    b_ret2,         \* what run_track2 returned to track2_worker
    b_wrote,        \* <<worker, slot>> for every assignment to a result slot
    b_notified,     \* notify("Notion backup: Track 1 FAILED", ...) was called
    b_snapshots,    \* "no", or how take_snapshots() ended: "ok" | "raised"
    b_git           \* <<>>, or the arguments git_commit was called with

bvars == <<results, b_main, track1, track2, b_ret1, b_ret2, b_wrote, b_notified,
           b_snapshots, b_git>>

\* main() before t1.start() (lines 551-585)
BackupAtRest ==
    /\ results = [page_count |-> 0, db_count |-> 0, t1_ok |-> FALSE, t2_ok |-> FALSE]
    /\ b_main = "start"
    /\ track1 = "new"
    /\ track2 = "new"
    /\ b_ret1 = <<>>
    /\ b_ret2 = FALSE
    /\ b_wrote = {}
    /\ b_notified = FALSE
    /\ b_snapshots = "no"
    /\ b_git = <<>>

EmptyState == [caldav_modified |-> EmptyDict, notion_modified |-> EmptyDict]

\* t_call before the first call
NoCall == [outs |-> <<>>, errs0 |-> 0, trig0 |-> FALSE, res |-> "", calls |-> 0,
           sleeps |-> <<>>, errors |-> 0, triggered |-> FALSE]

\* the task engine before its first run, with nothing on either remote
TasksAtRest ==
    /\ t_caldav = EmptyDict /\ t_notion = EmptyDict /\ t_file = EmptyState
    /\ t_clock = [d |-> 1, t |-> 1]
    /\ t_pc = "idle" /\ t_state = EmptyState
    /\ t_todos = EmptyDict /\ t_uid_map = EmptyDict /\ t_pages = EmptyDict
    /\ t_pending = {}
    /\ circuit_breaker_errors = 0 /\ circuit_breaker_triggered = FALSE
    /\ t_stats = 0 /\ t_runs = 0 /\ t_writes = {} /\ t_seen_done = {} /\ t_warned = {}
    /\ t_call = NoCall /\ t_budget = 0 /\ t_notified = FALSE
    /\ t_caldav0 = EmptyDict /\ t_notion0 = EmptyDict /\ t_file0 = EmptyState
    /\ t_fails = 0 /\ t_userOps = 0 /\ t_hist = <<>>

(***************************************************************************)
(* Remote adapters.  `ok` is the outcome the network and the server allow  *)
(* the request; `tag` is the etag the server gives the written record.     *)
(* Each returns [ok, store, etag].                                         *)
(***************************************************************************)
\* GoogleClient.update: the People API refuses a body whose etag is stale
GoogleUpdate(g, res, etag, body, ok, tag) ==
    IF ok /\ res \in DOMAIN g /\ g[res].etag = etag
    THEN [ok |-> TRUE, etag |-> tag,
          store |-> [g EXCEPT ![res] = [etag |-> tag, name |-> body.name, ext |-> body.ext]]]
    ELSE [ok |-> FALSE, etag |-> 0, store |-> g]

\* GoogleClient.create; the server names the new contact `res`
GoogleCreate(g, res, body, ok, tag) ==
    IF ok
    THEN [ok |-> TRUE, etag |-> tag,
          store |-> Put(g, res, [etag |-> tag, name |-> body.name, ext |-> body.ext])]
    ELSE [ok |-> FALSE, etag |-> 0, store |-> g]

\* GoogleClient.delete
GoogleDelete(g, res, ok) ==
    IF ok /\ res \in DOMAIN g
    THEN [ok |-> TRUE, etag |-> 0, store |-> Drop(g, res)]
    ELSE [ok |-> FALSE, etag |-> 0, store |-> g]

\* CardDAVClient.put: If-Match only when an etag is given (0 = None)
CardDAVPut(c, href, vcard, etag, ok, tag) ==
    IF ok /\ (etag # 0 => (href \in DOMAIN c /\ c[href].etag = etag))
    THEN [ok |-> TRUE, etag |-> tag,
          store |-> Put(c, href, [etag |-> tag, uid |-> vcard.uid, fn |-> vcard.fn])]
    ELSE [ok |-> FALSE, etag |-> 0, store |-> c]

\* CardDAVClient.add: put to a new uuid4 file name, no If-Match
CardDAVAdd(c, href, vcard, ok, tag) == CardDAVPut(c, href, vcard, 0, ok, tag)

\* CardDAVClient.delete
CardDAVDelete(c, href, ok) ==
    IF ok /\ href \in DOMAIN c
    THEN [ok |-> TRUE, etag |-> 0, store |-> Drop(c, href)]
    ELSE [ok |-> FALSE, etag |-> 0, store |-> c]

Person(g, res) ==
    [resourceName |-> res, etag |-> g[res].etag, name |-> g[res].name, ext |-> g[res].ext]

\* GoogleClient.get_all_contacts: keyed by the vCard-UID externalId when there is
\* one (<<"uid", u>>), else by the resourceName (<<"people", r>>).  The response
\* lists the contacts by ascending resourceName; a later one replaces an earlier
\* one under the same key.
GoogleGetAllContacts(g) ==
    LET KeyOf(r) == IF g[r].ext # 0 THEN <<"uid", g[r].ext>> ELSE <<"people", r>>
        keys == {KeyOf(r) : r \in DOMAIN g}
    IN  [k \in keys |-> Person(g, Max({r \in DOMAIN g : KeyOf(r) = k}))]

\* CardDAVClient.get_all_contacts: keyed by the UID line of the vCard, the
\* responses taken by ascending href
CardDAVGetAllContacts(c) ==
    LET uids == {c[h].uid : h \in DOMAIN c}
        last(u) == Max({h \in DOMAIN c : c[h].uid = u})
    IN  [u \in uids |-> [href |-> last(u), etag |-> c[last(u)].etag,
                         vcard |-> [uid |-> u, fn |-> c[last(u)].fn]]]

\* load_state
load_state(d) == d

(***************************************************************************)
(* sync(), step 2 and 3: the fingerprint indexes and the pairs.            *)
(***************************************************************************)
\* g_by_fp: fingerprint -> resourceName.  `g_by_fp[fp] = (key, person)` is
\* assigned for every unlinked contact in fetch order, so the last one stays.
GByFp(gu) ==
    LET fps == {fingerprint_from_google(gu[r]) : r \in DOMAIN gu} \ {""}
    IN  [fp \in fps |-> Max({r \in DOMAIN gu : fingerprint_from_google(gu[r]) = fp})]

\* c_unlinked_uids: the CardDAV UIDs neither in state nor anchored on Google
CUnlinked(cc, st, gl) == {u \in DOMAIN cc : u \notin DOMAIN st /\ u \notin DOMAIN gl}

\* c_by_fp: fingerprint -> uid, the last one in fetch order (ascending href) stays
CByFp(cc, cu) ==
    LET fps == {fingerprint_from_vcard(cc[u].vcard) : u \in cu} \ {""}
        HrefLast(fp) == Max({cc[u].href : u \in {v \in cu : fingerprint_from_vcard(cc[v].vcard) = fp}})
    IN  [fp \in fps |-> CHOOSE u \in cu : cc[u].href = HrefLast(fp)]

\* matched: c_uid -> resourceName, for every fingerprint in both indexes
Matched(cbf, gbf) ==
    LET fps == DOMAIN cbf \cap DOMAIN gbf
    IN  [u \in {cbf[fp] : fp \in fps} |-> gbf[CHOOSE fp \in fps : cbf[fp] = u]]

\* The outcomes a remote request can have: it fails for an outside reason
\* only while the behaviour's failure budget lasts.
Outcomes == IF fails < MaxFails THEN BOOLEAN ELSE {TRUE}

ZeroStats == [g_created |-> 0, g_updated |-> 0, c_created |-> 0, c_updated |-> 0,
              deleted |-> 0, skipped |-> 0, errors |-> 0]

Link(res, href, eg, ec, fp) ==
    [google_res |-> res, carddav_href |-> href, etag_google |-> eg,
     etag_carddav |-> ec, fingerprint |-> fp]

Write(op, side, id, ok) == [op |-> op, side |-> side, id |-> id, ok |-> ok]

\* sync() up to the end of step 3's pairing (lines 410-460)
StartSync ==
    /\ pc = "idle"
    /\ runs < MaxRuns
    /\ \E d \in BOOLEAN :
        LET st == load_state(db)
            g_contacts == GoogleGetAllContacts(google)
            cc == CardDAVGetAllContacts(carddav)
            gu == [r \in {k[2] : k \in {x \in DOMAIN g_contacts : x[1] = "people"}}
                     |-> g_contacts[<<"people", r>>]]
            gl == [u \in {k[2] : k \in {x \in DOMAIN g_contacts : x[1] = "uid"}}
                     |-> g_contacts[<<"uid", u>>]]
            cu == CUnlinked(cc, st, gl)
            m  == Matched(CByFp(cc, cu), GByFp(gu))
        IN  /\ dry' = d
            /\ state' = st
            /\ c_contacts' = cc
            /\ g_unlinked' = gu
            /\ g_linked' = gl
            /\ c_unlinked_uids' = cu
            /\ matched' = m
            /\ paired' = m
    /\ pc' = "match"
    /\ dbw' = db
    /\ runs' = runs + 1
    /\ writes' = {}
    /\ conflicts' = {}
    /\ aborted' = FALSE
    /\ db0' = db
    /\ google0' = google
    /\ carddav0' = carddav
    /\ all_uids' = {}
    /\ g_pending' = {}
    /\ stats' = ZeroStats
    /\ UNCHANGED <<google, carddav, db, fresh, fails, userOps, hist>>
    /\ UNCHANGED <<tvars, bvars, refused>>

\* a faulty "Apply matches" that anchors the UID on Google also in a dry run;
\* C22 tells it from ApplyMatch
ApplyMatchAnchorsAlways ==
    /\ pc = "match"
    /\ DOMAIN matched # {}
    /\ LET c_uid == Min(DOMAIN matched)
           g_res == matched[c_uid]
           g_person == g_unlinked[g_res]
           c_data == c_contacts[c_uid]
       IN  \E ok \in Outcomes :
            LET upd == GoogleUpdate(google, g_res, g_person.etag,
                             vcard_to_google(c_data.vcard, c_uid), ok, fresh + 1)
            IN  /\ google' = upd.store
                /\ fresh' = fresh + 1
                /\ fails' = IF ~ok THEN fails + 1 ELSE fails
                /\ writes' = writes \cup {Write("update", "google", g_res, upd.ok)}
                /\ IF upd.ok
                   THEN /\ dbw' = Put(dbw, c_uid, Link(g_res, c_data.href, upd.etag, c_data.etag,
                                                       fingerprint_from_vcard(c_data.vcard)))
                        /\ c_unlinked_uids' = c_unlinked_uids \ {c_uid}
                        /\ g_unlinked' = Drop(g_unlinked, g_res)
                        /\ g_linked' = Put(g_linked, c_uid, g_person)
                   ELSE UNCHANGED <<dbw, c_unlinked_uids, g_unlinked, g_linked>>
                /\ matched' = Drop(matched, c_uid)
    /\ UNCHANGED <<carddav, db, pc, dry, c_contacts, state, all_uids, g_pending, stats,
                   runs, conflicts, aborted, db0, google0, carddav0, paired, userOps, hist>>
    /\ UNCHANGED <<tvars, bvars, refused>>

\* One iteration of "Apply matches" (lines 463-485): the anchor on Google, then the Link
ApplyMatch ==
    /\ pc = "match"
    /\ DOMAIN matched # {}
    /\ LET c_uid == Min(DOMAIN matched)
           g_res == matched[c_uid]
           g_person == g_unlinked[g_res]
           c_data == c_contacts[c_uid]
       IN  \E ok \in Outcomes :
            LET upd == IF dry THEN [ok |-> TRUE, etag |-> g_person.etag, store |-> google]
                       ELSE GoogleUpdate(google, g_res, g_person.etag,
                                         vcard_to_google(c_data.vcard, c_uid), ok, fresh + 1)
            IN  /\ google' = upd.store
                /\ fresh' = IF dry THEN fresh ELSE fresh + 1
                /\ fails' = IF ~dry /\ ~ok THEN fails + 1 ELSE fails
                /\ writes' = IF dry THEN writes
                             ELSE writes \cup {Write("update", "google", g_res, upd.ok)}
                /\ IF upd.ok
                   THEN /\ dbw' = Put(dbw, c_uid, Link(g_res, c_data.href, upd.etag, c_data.etag,
                                                       fingerprint_from_vcard(c_data.vcard)))
                        /\ c_unlinked_uids' = c_unlinked_uids \ {c_uid}
                        /\ g_unlinked' = Drop(g_unlinked, g_res)
                        /\ g_linked' = Put(g_linked, c_uid, g_person)
                   ELSE UNCHANGED <<dbw, c_unlinked_uids, g_unlinked, g_linked>>
                /\ matched' = Drop(matched, c_uid)
    /\ UNCHANGED <<carddav, db, pc, dry, c_contacts, state, all_uids, g_pending, stats,
                   runs, conflicts, aborted, db0, google0, carddav0, paired, userOps, hist>>
    /\ UNCHANGED <<tvars, bvars, refused>>

\* state_uids_gone (line 498)
StateUidsGone(st, gl, cc) == {u \in DOMAIN st : u \notin DOMAIN gl /\ u \notin DOMAIN cc}

\* the condition of SAFETY ABORT (line 499), n = len(state), k = len(state_uids_gone)
SafetyAbort(n, k) == n > SAFETY_MIN_STATE /\ 100 * k > n * SAFETY_DELETE_PCT

\* what the properties keep of a finished run
HistEntry(ab, ws, errs) ==
    [dry |-> dry, aborted |-> ab, userOps |-> userOps, nwrites |-> Cardinality(ws),
     npaired |-> Cardinality(DOMAIN paired),
     clean |-> (errs = 0 /\ \A w \in ws : w.ok)]

\* db.commit(), load_state, all_uids and the safety check (lines 487-507)
AfterMatch ==
    /\ pc = "match"
    /\ DOMAIN matched = {}
    /\ db' = dbw
    /\ state' = load_state(dbw)
    /\ IF SafetyAbort(Cardinality(DOMAIN dbw),
                      Cardinality(StateUidsGone(dbw, g_linked, c_contacts)))
       THEN /\ pc' = "idle"
            /\ aborted' = TRUE
            /\ hist' = Append(hist, HistEntry(TRUE, writes, 0))
            /\ UNCHANGED <<all_uids, g_pending>>
       ELSE /\ pc' = "sync"
            /\ all_uids' = DOMAIN dbw \cup DOMAIN g_linked \cup DOMAIN c_contacts
            /\ g_pending' = DOMAIN g_unlinked
            /\ UNCHANGED <<aborted, hist>>
    /\ UNCHANGED <<google, carddav, dbw, dry, c_contacts, g_linked, g_unlinked,
                   c_unlinked_uids, matched, stats, fresh, runs, writes, conflicts,
                   db0, google0, carddav0, paired, fails, userOps>>
    /\ UNCHANGED <<tvars, bvars, refused>>

(***************************************************************************)
(* sync(), step 5: one identifier of all_uids.                             *)
(***************************************************************************)
\* a faulty loop body: it drops the Link of a contact gone from Google without
\* the delete on CardDAV; C7 tells it from Transition
TransitionDropOnly(s, g, c) ==
    CASE s /\ ~g /\ ~c -> "drop"
      [] s /\ ~g /\ c  -> "drop"
      [] s /\ g /\ ~c  -> "delete_google"
      [] ~s /\ c /\ ~g -> "create_google"
      [] ~s /\ g /\ ~c -> "create_carddav"
      [] ~s /\ g /\ c  -> "adopt"
      [] s /\ g /\ c   -> "update"
      [] OTHER         -> "none"

\* a faulty update branch: CardDAV wins a conflict; C9 tells it from Classify
ClassifyCardDAVWins(g_changed, c_changed) ==
    IF ~g_changed /\ ~c_changed THEN "skip"
    ELSE IF g_changed /\ ~c_changed THEN "to_carddav"
    ELSE "to_google"

\* a faulty dispatch that sends a pair found on both sides without Link to
\* the create case instead of linking it; C40 tells it from Transition
TransitionAdoptCreates(s, g, c) ==
    CASE s /\ ~g /\ ~c -> "drop"
      [] s /\ ~g /\ c  -> "delete_carddav"
      [] s /\ g /\ ~c  -> "delete_google"
      [] ~s /\ c /\ ~g -> "create_google"
      [] ~s /\ g /\ ~c -> "create_carddav"
      [] ~s /\ g /\ c  -> "create_google"
      [] s /\ g /\ c   -> "update"
      [] OTHER         -> "none"

\* which branch of the loop body takes the identifier (lines 517-586);
\* s, g, c: whether state, g_linked, c_contacts hold it
Transition(s, g, c) ==
    CASE s /\ ~g /\ ~c -> "drop"
      [] s /\ ~g /\ c  -> "delete_carddav"
      [] s /\ g /\ ~c  -> "delete_google"
      [] ~s /\ c /\ ~g -> "create_google"
      [] ~s /\ g /\ ~c -> "create_carddav"
      [] ~s /\ g /\ c  -> "adopt"
      [] s /\ g /\ c   -> "update"
      [] OTHER         -> "none"

\* the sub-case of the update branch (lines 592-626)
Classify(g_changed, c_changed) ==
    IF ~g_changed /\ ~c_changed THEN "skip"
    ELSE IF g_changed /\ ~c_changed THEN "to_carddav"
    ELSE IF c_changed /\ ~g_changed THEN "to_google"
    ELSE "conflict"

\* `s.get("google_res") or g["resourceName"]`
ResName(s, g) == IF s.google_res # 0 THEN s.google_res ELSE g.resourceName

\* What one iteration does for `uid` when its remote request (if it sends one)
\* has outcome `ok`:  the stores after it, the statistic it counts, the request
\* it sent, whether it logged a conflict, how many fresh values it drew.
SyncEffect(uid, ok) ==
    LET has_s == uid \in DOMAIN state
        has_g == uid \in DOMAIN g_linked
        has_c == uid \in DOMAIN c_contacts
        s == state[uid]
        g == g_linked[uid]
        c == c_contacts[uid]
        tr == Transition(has_s, has_g, has_c)
        Base == [google |-> google, carddav |-> carddav, dbw |-> dbw, stat |-> "skipped",
                 wr |-> {}, conflict |-> FALSE, used |-> 0]
        Err(w) == [Base EXCEPT !.stat = "errors", !.wr = {w}]
    IN
    CASE tr = "drop" ->
            [Base EXCEPT !.stat = "deleted", !.dbw = IF dry THEN dbw ELSE Drop(dbw, uid)]
      [] tr = "delete_carddav" ->
            IF dry THEN [Base EXCEPT !.stat = "deleted"]
            ELSE LET r == CardDAVDelete(carddav, c.href, ok)
                     w == Write("delete", "carddav", c.href, r.ok)
                 IN  IF ~r.ok THEN Err(w)
                     ELSE [Base EXCEPT !.stat = "deleted", !.carddav = r.store,
                                       !.dbw = Drop(dbw, uid), !.wr = {w}]
      [] tr = "delete_google" ->
            IF dry THEN [Base EXCEPT !.stat = "deleted"]
            ELSE LET r == GoogleDelete(google, ResName(s, g), ok)
                     w == Write("delete", "google", ResName(s, g), r.ok)
                 IN  IF ~r.ok THEN Err(w)
                     ELSE [Base EXCEPT !.stat = "deleted", !.google = r.store,
                                       !.dbw = Drop(dbw, uid), !.wr = {w}]
      [] tr = "create_google" ->
            IF dry THEN [Base EXCEPT !.stat = "g_created"]
            ELSE LET res == fresh + 1
                     r == GoogleCreate(google, res, vcard_to_google(c.vcard, uid), ok, fresh + 2)
                     w == Write("create", "google", res, r.ok)
                 IN  IF ~r.ok THEN [Err(w) EXCEPT !.used = 2]
                     ELSE [Base EXCEPT !.stat = "g_created", !.google = r.store, !.wr = {w},
                              !.used = 2,
                              !.dbw = Put(dbw, uid, Link(res, c.href, r.etag, c.etag,
                                                         fingerprint_from_vcard(c.vcard)))]
      [] tr = "create_carddav" ->
            IF dry THEN [Base EXCEPT !.stat = "c_created"]
            ELSE LET href == fresh + 1
                     r == CardDAVAdd(carddav, href, google_to_vcard(g, uid), ok, fresh + 2)
                     w == Write("create", "carddav", href, r.ok)
                 IN  IF ~r.ok THEN [Err(w) EXCEPT !.used = 2]
                     ELSE [Base EXCEPT !.stat = "c_created", !.carddav = r.store, !.wr = {w},
                              !.used = 2,
                              !.dbw = Put(dbw, uid, Link(g.resourceName, href, g.etag, r.etag,
                                                         fingerprint_from_google(g)))]
      [] tr = "adopt" ->
            \* INSERT OR IGNORE
            [Base EXCEPT !.dbw = IF dry \/ uid \in DOMAIN dbw THEN dbw
                                ELSE Put(dbw, uid, Link(g.resourceName, c.href, g.etag, c.etag,
                                                        fingerprint_from_vcard(c.vcard)))]
      [] tr = "update" ->
            LET cl == Classify(g.etag # s.etag_google, c.etag # s.etag_carddav) IN
            CASE cl = "skip" -> Base
              [] cl \in {"to_carddav", "conflict"} ->
                    IF dry THEN [Base EXCEPT !.stat = "c_updated", !.conflict = (cl = "conflict")]
                    ELSE LET r == CardDAVPut(carddav, c.href, google_to_vcard(g, uid), c.etag,
                                             ok, fresh + 1)
                             w == Write("update", "carddav", c.href, r.ok)
                         IN  IF ~r.ok
                             THEN [Err(w) EXCEPT !.used = 1, !.conflict = (cl = "conflict")]
                             ELSE [Base EXCEPT !.stat = "c_updated", !.carddav = r.store,
                                      !.wr = {w}, !.used = 1, !.conflict = (cl = "conflict"),
                                      !.dbw = [dbw EXCEPT ![uid].etag_google = g.etag,
                                                          ![uid].etag_carddav = r.etag,
                                                          ![uid].carddav_href = c.href]]
              [] cl = "to_google" ->
                    IF dry THEN [Base EXCEPT !.stat = "g_updated"]
                    ELSE LET r == GoogleUpdate(google, ResName(s, g), g.etag,
                                               vcard_to_google(c.vcard, uid), ok, fresh + 1)
                             w == Write("update", "google", ResName(s, g), r.ok)
                         IN  IF ~r.ok THEN [Err(w) EXCEPT !.used = 1]
                             ELSE [Base EXCEPT !.stat = "g_updated", !.google = r.store,
                                      !.wr = {w}, !.used = 1,
                                      !.dbw = [dbw EXCEPT ![uid].etag_google = r.etag,
                                                          ![uid].etag_carddav = c.etag]]
      [] OTHER -> Base

\* One iteration of `for uid in all_uids` (lines 510-638).  The loop takes the
\* identifiers of a set in an order Python leaves open; an iteration reads and
\* writes only the rows and records of its own identifier, so the model takes
\* the least one.
SyncUid ==
    /\ pc = "sync"
    /\ all_uids # {}
    /\ LET uid == Min(all_uids) IN
       \E ok \in Outcomes :
        LET e == SyncEffect(uid, ok) IN
        /\ google' = e.google
        /\ carddav' = e.carddav
        /\ dbw' = e.dbw
        /\ stats' = [stats EXCEPT ![e.stat] = @ + 1]
        /\ writes' = writes \cup e.wr
        /\ conflicts' = IF e.conflict THEN conflicts \cup {uid} ELSE conflicts
        /\ fresh' = fresh + e.used
        /\ fails' = IF e.wr # {} /\ ~ok THEN fails + 1 ELSE fails
        /\ all_uids' = all_uids \ {uid}
        /\ refused' = IF ok /\ e.stat = "errors" /\ \E w \in e.wr : w.op = "update"
                       THEN refused \cup {<<runs, uid>>}
                       ELSE refused
    /\ UNCHANGED <<db, pc, dry, c_contacts, g_linked, g_unlinked, c_unlinked_uids, matched,
                   state, g_pending, runs, aborted, db0, google0, carddav0, paired,
                   userOps, hist>>
    /\ UNCHANGED <<tvars, bvars>>

\* One iteration of step 6 (lines 641-662): an unlinked Google contact gets a
\* new UID, written to Google first, and is then created on CardDAV
SyncUnlinked ==
    /\ pc = "sync"
    /\ all_uids = {}
    /\ g_pending # {}
    /\ LET res_name == Min(g_pending)
           person == g_unlinked[res_name]
           new_uid == fresh + 1
           vcard == google_to_vcard(person, new_uid)
       IN
       \E ok1 \in Outcomes : \E ok2 \in Outcomes :
        LET upd == GoogleUpdate(google, res_name, person.etag,
                                vcard_to_google(vcard, new_uid), ok1, fresh + 2)
            add == CardDAVAdd(carddav, fresh + 3, vcard, ok2, fresh + 4)
            w1 == Write("update", "google", res_name, upd.ok)
            w2 == Write("create", "carddav", fresh + 3, add.ok)
        IN
        /\ fails + (IF ~ok1 THEN 1 ELSE 0) + (IF ~ok2 THEN 1 ELSE 0) <= MaxFails
        /\ ~ok1 => ok2
        /\ IF dry
           THEN /\ ok1 /\ ok2
                /\ stats' = [stats EXCEPT !.c_created = @ + 1]
                /\ fresh' = fresh + 1
                /\ UNCHANGED <<google, carddav, dbw, writes, fails>>
           ELSE /\ google' = upd.store
                /\ carddav' = IF upd.ok THEN add.store ELSE carddav
                /\ writes' = writes \cup (IF upd.ok THEN {w1, w2} ELSE {w1})
                /\ fresh' = fresh + 4
                /\ fails' = fails + (IF ~ok1 THEN 1 ELSE 0) + (IF ~ok2 THEN 1 ELSE 0)
                /\ IF upd.ok /\ add.ok
                   THEN /\ dbw' = Put(dbw, new_uid, Link(res_name, fresh + 3, upd.etag, add.etag,
                                                         fingerprint_from_google(person)))
                        /\ stats' = [stats EXCEPT !.c_created = @ + 1]
                   ELSE /\ dbw' = dbw
                        /\ stats' = [stats EXCEPT !.errors = @ + 1]
    /\ g_pending' = g_pending \ {Min(g_pending)}
    /\ UNCHANGED <<db, pc, dry, c_contacts, g_linked, g_unlinked, c_unlinked_uids, matched,
                   state, all_uids, runs, conflicts, aborted, db0, google0, carddav0, paired,
                   userOps, hist>>
    /\ UNCHANGED <<tvars, bvars, refused>>

\* db.commit(), db.close() and the summary (lines 664-673)
FinishSync ==
    /\ pc = "sync"
    /\ all_uids = {}
    /\ g_pending = {}
    /\ db' = dbw
    /\ pc' = "idle"
    /\ hist' = Append(hist, HistEntry(FALSE, writes, stats.errors))
    /\ UNCHANGED <<google, carddav, dbw, dry, c_contacts, g_linked, g_unlinked,
                   c_unlinked_uids, matched, state, all_uids, g_pending, stats, fresh,
                   runs, writes, conflicts, aborted, db0, google0, carddav0, paired,
                   fails, userOps>>
    /\ UNCHANGED <<tvars, bvars, refused>>

(***************************************************************************)
(* The users: between two runs a contact is edited or deleted on a remote. *)
(***************************************************************************)
BetweenRuns == pc = "idle" /\ 0 < runs /\ runs < MaxRuns /\ userOps < MaxUserOps

UserChange(g, c) ==
    /\ BetweenRuns
    /\ google' = g
    /\ carddav' = c
    /\ userOps' = userOps + 1
    /\ fresh' = fresh + 1
    /\ UNCHANGED <<db, dbw, pc, dry, c_contacts, g_linked, g_unlinked, c_unlinked_uids,
                   matched, state, all_uids, g_pending, stats, runs, writes, conflicts,
                   aborted, db0, google0, carddav0, paired, fails, hist>>
    /\ UNCHANGED <<tvars, bvars, refused>>

UserEditGoogle ==
    \E r \in DOMAIN google :
        UserChange([google EXCEPT ![r].etag = fresh + 1, ![r].name = EditNameG], carddav)

UserDeleteGoogle == \E r \in DOMAIN google : UserChange(Drop(google, r), carddav)

UserEditCardDAV ==
    \E h \in DOMAIN carddav :
        UserChange(google, [carddav EXCEPT ![h].etag = fresh + 1, ![h].fn = EditNameC])

UserDeleteCardDAV == \E h \in DOMAIN carddav : UserChange(google, Drop(carddav, h))

(***************************************************************************)
(* Populations.  Contact i of a population is described by                 *)
(*   [k, name, g, c]:  k = "none" | "c_new" | "g_new" | "link".            *)
(* "c_new": a vCard with UID i at href i that no Link knows; "g_new": the  *)
(* Google contact i without vCard-UID; "link": the Link i the engine made  *)
(* for the contact "Ann" (Google contact i anchored with UID i, vCard at   *)
(* href i, both etags 1), after which each side was left alone ("same"),   *)
(* edited (etag 2) or deleted ("gone").                                    *)
(***************************************************************************)
NoContact == [k |-> "none", name |-> "", g |-> "gone", c |-> "gone"]
NewOnCardDAV(n) == [k |-> "c_new", name |-> n, g |-> "gone", c |-> "same"]
NewOnGoogle(n) == [k |-> "g_new", name |-> n, g |-> "same", c |-> "gone"]
Linked(g, c) == [k |-> "link", name |-> "Ann", g |-> g, c |-> c]

Kinds ==
    {NoContact}
    \cup {NewOnCardDAV(n) : n \in NewNames}
    \cup {NewOnGoogle(n) : n \in NewNames}
    \cup {Linked(g, c) : g \in {"same", "changed", "gone"}, c \in {"same", "changed", "gone"}}

EtagOf(x) == IF x = "changed" THEN 2 ELSE 1

GoogleOf(pop) ==
    [i \in {j \in DOMAIN pop : pop[j].k \in {"g_new", "link"} /\ pop[j].g # "gone"} |->
        IF pop[i].k = "g_new" THEN [etag |-> 1, name |-> pop[i].name, ext |-> 0]
        ELSE [etag |-> EtagOf(pop[i].g), ext |-> i,
              name |-> IF pop[i].g = "changed" THEN EditNameG ELSE pop[i].name]]

CardDAVOf(pop) ==
    [i \in {j \in DOMAIN pop : pop[j].k \in {"c_new", "link"} /\ pop[j].c # "gone"} |->
        IF pop[i].k = "c_new" THEN [etag |-> 1, uid |-> i, fn |-> pop[i].name]
        ELSE [etag |-> EtagOf(pop[i].c), uid |-> i,
              fn |-> IF pop[i].c = "changed" THEN EditNameC ELSE pop[i].name]]

DbOf(pop) ==
    [i \in {j \in DOMAIN pop : pop[j].k = "link"} |->
        Link(i, i, 1, 1, FingerprintOfName(pop[i].name))]

\* the state before the first run of a world with population pop
InitWith(pop) ==
    /\ BackupAtRest
    /\ google = GoogleOf(pop)
    /\ carddav = CardDAVOf(pop)
    /\ db = DbOf(pop)
    /\ dbw = DbOf(pop)
    /\ pc = "idle"
    /\ dry = FALSE
    /\ c_contacts = EmptyDict
    /\ g_linked = EmptyDict
    /\ g_unlinked = EmptyDict
    /\ c_unlinked_uids = {}
    /\ matched = EmptyDict
    /\ state = EmptyDict
    /\ all_uids = {}
    /\ g_pending = {}
    /\ stats = ZeroStats
    /\ fresh = Max(DOMAIN pop \cup {2})
    /\ runs = 0
    /\ writes = {}
    /\ conflicts = {}
    /\ aborted = FALSE
    /\ db0 = DbOf(pop)
    /\ google0 = GoogleOf(pop)
    /\ carddav0 = CardDAVOf(pop)
    /\ paired = EmptyDict
    /\ fails = 0
    /\ userOps = 0
    /\ refused = {}
    /\ hist = <<>>

Init == TasksAtRest /\ \E pop \in [1..MaxContacts -> Kinds] : InitWith(pop)

Next ==
    \/ StartSync
    \/ ApplyMatch
    \/ AfterMatch
    \/ SyncUid
    \/ SyncUnlinked
    \/ FinishSync
    \/ UserEditGoogle
    \/ UserDeleteGoogle
    \/ UserEditCardDAV
    \/ UserDeleteCardDAV

vars == <<cvars, tvars, bvars>>

Spec == Init /\ [][Next]_vars

(***************************************************************************)
(* Large populations, for the safety check: n Links of which the first     *)
(* `both` have lost both records; the other Links have both records, or    *)
(* (goneG) only the CardDAV one, as when the Google fetch comes back       *)
(* empty; and (pair) two more contacts, a vCard and an unlinked Google     *)
(* contact with the same fingerprint.                                      *)
(***************************************************************************)
GuardPop(n, both, goneG, pair) ==
    [i \in 1..(n + 2) |->
        IF i <= both THEN Linked("gone", "gone")
        ELSE IF i <= n THEN (IF goneG THEN Linked("gone", "same") ELSE Linked("same", "same"))
        ELSE IF ~pair THEN NoContact
        ELSE IF i = n + 1 THEN NewOnCardDAV("Ann")
        ELSE NewOnGoogle("ann ")]

GuardSizes == (SAFETY_MIN_STATE - 1)..(SAFETY_MIN_STATE - 1 + GuardSpan)

GuardPops ==
    UNION {{GuardPop(n, both, goneG, pair) :
                both \in {(n \div 5) - 1, n \div 5, (n \div 5) + 1},
                goneG \in BOOLEAN, pair \in BOOLEAN} : n \in GuardSizes}
    \cup
    \* the outage of the specification's example: 100 Links, Google returns
    \* nothing, CardDAV still returns 85 of them
    {GuardPop(2 * SAFETY_MIN_STATE, 15, TRUE, pair) : pair \in BOOLEAN}

InitGuard == TasksAtRest /\ \E pop \in GuardPops : InitWith(pop)

NextGuard ==
    \/ (runs = 0 /\ StartSync)
    \/ ApplyMatch
    \/ AfterMatch
    \/ SyncUid
    \/ SyncUnlinked
    \/ FinishSync

SpecGuard == InitGuard /\ [][NextGuard]_vars

(***************************************************************************)
(* Properties of the contacts sync.                                        *)
(***************************************************************************)
\* a run has ended and no user has touched a remote since
RunEnded == pc = "idle" /\ Len(hist) > 0 /\ hist[Len(hist)].userOps = userOps

\* the run that ended went through (no SAFETY ABORT) with every request
\* answered with success and no error counted
RunSucceeded == RunEnded /\ ~aborted /\ hist[Len(hist)].clean

\* the fetches of the run, as they were when it started
FetchedOnGoogle(u) == \E r \in DOMAIN google0 : google0[r].ext = u
FetchedOnCardDAV(u) == \E h \in DOMAIN carddav0 : carddav0[h].uid = u

\* the Links of which exactly one side's fetch still has the record
GoneOnOneSide == {u \in DOMAIN db0 : FetchedOnGoogle(u) # FetchedOnCardDAV(u)}

DeletesSent == {w \in writes : w.op = "delete"}

\* C1: in a run that starts with at least 50 Links of which more than 20% are
\* absent from one side's fetch and present in the other's, no request is
\* sent to a remote, the Link State Store stays as it was, and the run ends
\* in SAFETY ABORT.
C1_OutageAborts ==
    (runs > 0 /\ Cardinality(DOMAIN db0) >= SAFETY_MIN_STATE
              /\ 100 * Cardinality(GoneOnOneSide) > SAFETY_DELETE_PCT * Cardinality(DOMAIN db0))
    => (writes = {} /\ db = db0 /\ (pc = "idle" => aborted))

\* C2: a run that ends in SAFETY ABORT has sent no request to a remote, the
\* anchor update of the Matching Phase included, and the Link State Store is
\* what it was when the run started.
C2_AbortLeavesNoTrace == aborted => (writes = {} /\ db = db0)

\* C3: the run ends in SAFETY ABORT exactly when the Link State Store has at
\* least 50 entries and the stored identifiers present on neither side are
\* more than 20% of it (so 50 entries with 11 missing abort).
C3_AbortExactlyAtThreshold ==
    (pc = "idle" /\ runs > 0)
    => (aborted <=> (/\ Cardinality(DOMAIN state) >= SAFETY_MIN_STATE
                     /\ 100 * Cardinality(StateUidsGone(state, g_linked, c_contacts))
                          > SAFETY_DELETE_PCT * Cardinality(DOMAIN state)))

\* the last two runs followed each other with the same DRY_RUN, both went
\* through with every request succeeding, and no user touched a remote between
TwoRunsInSuccession ==
    /\ pc = "idle"
    /\ Len(hist) >= 2
    /\ LET a == hist[Len(hist) - 1]
           b == hist[Len(hist)]
       IN  /\ a.dry = b.dry
           /\ ~a.aborted /\ ~b.aborted
           /\ a.clean /\ b.clean
           /\ a.userOps = b.userOps

\* C4: when sync() runs twice in succession, every request succeeding and
\* nobody changing either remote in between, the second run sends no request
\* that writes to a remote.
C4_SecondRunWritesNothing == TwoRunsInSuccession => hist[Len(hist)].nwrites = 0

\* the unlinked records a run found with fingerprint fp when it started
UnlinkedOnGoogle0(fp) ==
    {r \in DOMAIN google0 : google0[r].ext = 0 /\ FingerprintOfName(google0[r].name) = fp}
UnlinkedOnCardDAV0(fp) ==
    {h \in DOMAIN carddav0 : /\ carddav0[h].uid \notin DOMAIN db0
                             /\ ~FetchedOnGoogle(carddav0[h].uid)
                             /\ FingerprintOfName(carddav0[h].fn) = fp}

\* after the run: one Link holds the vCard `u` and the Google contact `r`, no
\* other Link names either, and neither remote has a record of that
\* fingerprint that it did not have before
PairConverged(u, r) ==
    LET href == c_contacts[u].href
        fp == fingerprint_from_vcard(c_contacts[u].vcard)
    IN  /\ {k \in DOMAIN db : k = u \/ db[k].google_res = r \/ db[k].carddav_href = href} = {u}
        /\ db[u].google_res = r
        /\ db[u].carddav_href = href
        /\ {x \in DOMAIN google \ DOMAIN google0 : FingerprintOfName(google[x].name) = fp} = {}
        /\ {h \in DOMAIN carddav \ DOMAIN carddav0 : FingerprintOfName(carddav[h].fn) = fp} = {}

\* C6: when Google and CardDAV each hold one unlinked record of the same
\* non-empty fingerprint, then after the Matching Phase and the
\* Reconciliation Phase of one run exactly one Link exists for the pair and
\* neither side has got another record for the contact.
C6_PairConverges ==
    (RunEnded /\ ~aborted)
    => \A u \in DOMAIN paired :
         LET fp == fingerprint_from_vcard(c_contacts[u].vcard) IN
         (Cardinality(UnlinkedOnGoogle0(fp)) = 1 /\ Cardinality(UnlinkedOnCardDAV0(fp)) = 1)
         => PairConverged(u, paired[u])

\* A Link of the run whose identifier no fetched Google contact carries, while
\* the vCard of that identifier is there with the etag stored at the last sync
GoogleGone(u) ==
    /\ u \in DOMAIN state /\ u \notin DOMAIN g_linked /\ u \in DOMAIN c_contacts
    /\ c_contacts[u].etag = state[u].etag_carddav
\* A Link of the run whose vCard is gone while Google still has the contact
CardDAVGone(u) ==
    u \in DOMAIN state /\ u \in DOMAIN g_linked /\ u \notin DOMAIN c_contacts

\* C7, as stated: for every Link whose Google record is absent and whose
\* CardDAV record is present and unchanged, a non-dry run deletes the CardDAV
\* record and drops the Link; and for every Link whose CardDAV record is
\* absent and whose Google record is present, it deletes the Google record
\* and drops the Link.
C7_DeletionPropagates ==
    (RunEnded /\ ~aborted /\ ~dry)
    => \A u \in DOMAIN state :
         /\ GoogleGone(u) => (c_contacts[u].href \notin DOMAIN carddav /\ u \notin DOMAIN db)
         /\ CardDAVGone(u) => (ResName(state[u], g_linked[u]) \notin DOMAIN google
                               /\ u \notin DOMAIN db)

\* the run sent one delete for record `id` of `side`; answered with success,
\* the record is gone and so is the Link; refused, both are still there
DeleteSettled(side, id, store, u) ==
    \E w \in DeletesSent :
        /\ w.side = side /\ w.id = id
        /\ w.ok => (id \notin DOMAIN store /\ u \notin DOMAIN db)
        /\ ~w.ok => (id \in DOMAIN store /\ u \in DOMAIN db)

\* C7, amended: for such a Link a non-dry run sends the delete to the side
\* that still has the record; when the request succeeds the record is gone
\* and the Link is dropped, and when it fails the record and the Link stay.
C7_DeletionPropagatesOnSuccess ==
    (RunEnded /\ ~aborted /\ ~dry)
    => \A u \in DOMAIN state :
         /\ GoogleGone(u) => DeleteSettled("carddav", c_contacts[u].href, carddav, u)
         /\ CardDAVGone(u) => DeleteSettled("google", ResName(state[u], g_linked[u]), google, u)

\* a non-dry run has ended in which both directions of the deletion were
\* carried out with success
C7_Witness ==
    /\ RunEnded /\ ~aborted /\ ~dry
    /\ \E u \in DOMAIN state : GoogleGone(u) /\ c_contacts[u].href \notin DOMAIN carddav
    /\ \E u \in DOMAIN state : CardDAVGone(u) /\ ResName(state[u], g_linked[u]) \notin DOMAIN google

\* a Link of the run of which both fetched etags differ from the stored ones
BothChanged(u) ==
    /\ u \in DOMAIN state /\ u \in DOMAIN g_linked /\ u \in DOMAIN c_contacts
    /\ g_linked[u].etag # state[u].etag_google
    /\ c_contacts[u].etag # state[u].etag_carddav

\* Google was left alone for the Link and the conflict was logged
GoogleUntouched(u) ==
    LET res == g_linked[u].resourceName
    IN  /\ u \in conflicts
        /\ {w \in writes : w.side = "google" /\ w.id = res} = {}
        /\ res \in DOMAIN google /\ google[res] = google0[res]

\* the vCard of the Link now says what Google said before the run
CardDAVHasGoogleContent(u) ==
    LET href == c_contacts[u].href
        v == google_to_vcard(Person(google0, g_linked[u].resourceName), u)
    IN  href \in DOMAIN carddav /\ carddav[href].fn = v.fn /\ carddav[href].uid = v.uid

\* C9, as stated: for every Link of which both etags differ from the stored
\* ones, after a successful run the CardDAV record has the content Google had
\* before the run, the Google record was not written, and the conflict was logged.
C9_GoogleWinsConflict ==
    RunSucceeded => \A u \in DOMAIN state :
        BothChanged(u) => (CardDAVHasGoogleContent(u) /\ GoogleUntouched(u))

\* C9, amended: the same after a successful run without DRY_RUN; a successful
\* DRY_RUN run logs the conflict too and leaves both records as they were.
C9_GoogleWinsConflictUnlessDry ==
    RunSucceeded => \A u \in DOMAIN state :
        BothChanged(u) =>
            /\ GoogleUntouched(u)
            /\ ~dry => CardDAVHasGoogleContent(u)
            /\ dry => (/\ c_contacts[u].href \in DOMAIN carddav
                       /\ carddav[c_contacts[u].href] = carddav0[c_contacts[u].href])

\* a successful run without DRY_RUN has ended that met a Link changed on both
\* sides, with different names on the two
C9_Witness ==
    /\ RunSucceeded /\ ~dry
    /\ \E u \in DOMAIN state :
         /\ BothChanged(u)
         /\ carddav0[c_contacts[u].href].fn # google0[g_linked[u].resourceName].name
         /\ carddav[c_contacts[u].href].fn = google0[g_linked[u].resourceName].name

(***************************************************************************)
(* Part II.  The task engine, vtodo-notion/sync.py: one run of sync() is   *)
(* the sweep CalDAV -> Notion over the VTODOs and then the sweep           *)
(* Notion -> CalDAV over the pages.                                        *)
(***************************************************************************)
MAX_RETRIES == 3

CIRCUIT_BREAKER_THRESHOLD == 10

\* the task UIDs are 1..MaxTasks
MaxTasks == 1
\* runs of the task sync in a behaviour
TMaxRuns == 2
\* remote failures in a behaviour
TMaxFails == 3
\* user changes in a behaviour
TMaxUserOps == 1
\* the last day of the wall clock
MaxDay == 2

(***************************************************************************)
(* Timestamps are strings and the engine compares them as strings.  A      *)
(* timestamp is modelled by what decides that comparison: <<d, sep, t>>,   *)
(* the date (the first ten characters), the character that follows it and  *)
(* the time of day; <<>> is the empty string.  str() of the datetime of    *)
(* LAST-MODIFIED or DTSTAMP puts a blank after the date (sep 0), Notion's  *)
(* last_edited_time and datetime.isoformat() put a "T" (sep 1).            *)
(***************************************************************************)
TsLe(a, b) ==
    IF a = <<>> THEN TRUE
    ELSE IF b = <<>> THEN FALSE
    ELSE \/ a[1] < b[1]
         \/ a[1] = b[1] /\ a[2] < b[2]
         \/ a[1] = b[1] /\ a[2] = b[2] /\ a[3] <= b[3]

CalDAVStamp(clock) == <<clock.d, 0, clock.t>>
NotionStamp(clock) == <<clock.d, 1, clock.t>>
IsoNow(clock) == <<clock.d, 1, clock.t>>

\* extract_last_modified; a VTODO with neither LAST-MODIFIED nor DTSTAMP has lm = <<>>
extract_last_modified(todo, clock) == IF todo.lm # <<>> THEN todo.lm ELSE IsoNow(clock)

\* a faulty map_status that reads every STATUS as open; C14 tells it from map_status
map_status_open(ical_status) == "In corso"

map_status(ical_status) == IF ical_status = "COMPLETED" THEN "Completato" ELSE "In corso"

\* parse_vtodo; `completato` is the value data.get("completato", False) has
parse_vtodo(todo, uid, clock) ==
    [uid |-> uid, summary |-> todo.summary, due |-> todo.due,
     status |-> map_status(todo.status), rrule |-> todo.rrule, list_name |-> "Tasks",
     completato |-> FALSE, last_modified |-> extract_last_modified(todo, clock)]

\* parse_notion_page; it yields no "status", here the value "" of data.get("status")
parse_notion_page(page, uid) ==
    [uid |-> uid, summary |-> page.summary, due |-> page.due, status |-> "",
     rrule |-> page.rrule, list_name |-> page.list, completato |-> page.done,
     last_modified |-> page.lm]

\* the title build_notion_properties gives the page
NotionTitle(summary) == IF summary = "" THEN "(senza titolo)" ELSE summary

\* The page after notion.pages.create / pages.update with
\* build_notion_properties(data): Scadenza and Periodicita` are sent only when
\* the data have them, so an update leaves the page's own value otherwise.
build_notion_properties(data, has_old, old, stamp) ==
    [summary |-> NotionTitle(data.summary),
     done    |-> (data.status = "Completato" \/ data.completato),
     rrule   |-> IF data.rrule # "" THEN data.rrule ELSE IF has_old THEN old.rrule ELSE "",
     due     |-> IF data.due # 0 THEN data.due ELSE IF has_old THEN old.due ELSE 0,
     list    |-> data.list_name,
     lm      |-> stamp]

\* build_ical_todo: the VTODO the payload describes.  The names of the model
\* have none of the characters _ical_escape rewrites.
build_ical_todo(data) ==
    [summary |-> data.summary,
     status  |-> IF data.completato \/ data.status = "Completato"
                 THEN "COMPLETED" ELSE "NEEDS-ACTION",
     rrule   |-> data.rrule,
     due     |-> data.due]

\* next_rrule_occurrence: the date of the first occurrence after midnight of
\* from_date (the due date, or today without one): the next day for a daily
\* rule, the same day for an hourly rule (01:00, cut to its date by line 242),
\* 0 (None) for a rule that has run out or that dateutil refuses
next_rrule_occurrence(rrule, due, today) ==
    LET from_date == IF due # 0 THEN due ELSE today
    IN  IF rrule = "FREQ=DAILY" THEN from_date + 1
        ELSE IF rrule = "FREQ=HOURLY" THEN from_date
        ELSE 0

find_calendar_by_name(name) == name = "Tasks"

\* The attempts of one call through with_retry, from attempt `attempt` (1 is
\* the first) with circuit_breaker_errors = errs; outs[i] is what attempt i
\* meets: "ok", "err" (a failure that is retried) or "400" (APIResponseError
\* with status 400).  The result is "true", "none" (None) or "raise"; calls
\* counts the invocations of the wrapped function from this attempt on, and
\* sleeps lists the seconds of the time.sleep calls, in order.
RECURSIVE RetryFrom(_, _, _)
RetryFrom(attempt, outs, errs) ==
    IF attempt > Len(outs) \/ attempt > MAX_RETRIES
    THEN [res |-> "none", errors |-> errs, triggered |-> FALSE, calls |-> 0, sleeps |-> <<>>]
    ELSE CASE outs[attempt] = "ok"  ->
                [res |-> "true", errors |-> 0, triggered |-> FALSE, calls |-> 1,
                 sleeps |-> <<>>]
           [] outs[attempt] = "400" ->
                [res |-> "raise", errors |-> errs, triggered |-> FALSE, calls |-> 1,
                 sleeps |-> <<>>]
           [] OTHER ->
                IF errs + 1 >= CIRCUIT_BREAKER_THRESHOLD
                THEN [res |-> "none", errors |-> errs + 1, triggered |-> TRUE, calls |-> 1,
                      sleeps |-> <<>>]
                ELSE IF attempt < MAX_RETRIES
                     THEN LET rest == RetryFrom(attempt + 1, outs, errs + 1)
                          IN  [rest EXCEPT !.calls = @ + 1,
                                           !.sleeps = <<2 ^ (attempt - 1)>> \o @]
                     ELSE [res |-> "raise", errors |-> errs + 1, triggered |-> FALSE,
                           calls |-> 1, sleeps |-> <<>>]

\* a faulty wrapper that sleeps once more before it re-raises; C18 tells it
\* from with_retry
with_retry_late_sleep(outs, errs, trig) ==
    LET r == IF trig THEN [res |-> "none", errors |-> errs, triggered |-> TRUE, calls |-> 0,
                           sleeps |-> <<>>]
             ELSE RetryFrom(1, outs, errs)
    IN  IF r.res = "raise" THEN [r EXCEPT !.sleeps = @ \o <<2 ^ (r.calls - 1)>>] ELSE r

\* a faulty wrapper that counts a validation error against the breaker; C19
\* tells it from with_retry
with_retry_counts_400(outs, errs, trig) ==
    LET r == IF trig THEN [res |-> "none", errors |-> errs, triggered |-> TRUE, calls |-> 0,
                           sleeps |-> <<>>]
             ELSE RetryFrom(1, outs, errs)
    IN  IF r.res = "raise" /\ outs[r.calls] = "400" THEN [r EXCEPT !.errors = @ + 1] ELSE r

\* a faulty wrapper whose successful call leaves the error counter as it
\* was; C31 tells it from with_retry
with_retry_no_reset(outs, errs, trig) ==
    LET r == IF trig THEN [res |-> "none", errors |-> errs, triggered |-> TRUE, calls |-> 0,
                           sleeps |-> <<>>]
             ELSE RetryFrom(1, outs, errs)
    IN  IF r.res = "true" THEN [r EXCEPT !.errors = errs + r.calls - 1] ELSE r

\* with_retry
with_retry(outs, errs, trig) ==
    IF trig THEN [res |-> "none", errors |-> errs, triggered |-> TRUE, calls |-> 0,
                  sleeps |-> <<>>]
    ELSE RetryFrom(1, outs, errs)

\* t_call after a call that met outs with the breaker at errs, trig and did r
CallRecord(outs, errs, trig, r) ==
    [outs |-> outs, errs0 |-> errs, trig0 |-> trig, res |-> r.res, calls |-> r.calls,
     sleeps |-> r.sleeps, errors |-> r.errors, triggered |-> r.triggered]

\* what the attempts of one call can meet, up to the attempt that ends it
RetryPlans ==
    {<<"ok">>, <<"400">>, <<"err", "ok">>, <<"err", "400">>,
     <<"err", "err", "ok">>, <<"err", "err", "400">>, <<"err", "err", "err">>}

FailuresOf(outs) == Cardinality({i \in 1..Len(outs) : outs[i] # "ok"})

\* the plans the failure budget of the behaviour still allows
TPlans == {outs \in RetryPlans : t_fails + FailuresOf(outs) <= t_budget}

TOutcomes == IF t_fails < t_budget THEN BOOLEAN ELSE {TRUE}

\* update_caldav_todo under with_retry: it catches every exception itself and
\* returns False, which with_retry takes for a result.  The server stamps the
\* VTODO it stores with the time of the write.
update_caldav_todo(caldav, uid, ical, ok, errs, trig, clock) ==
    IF trig THEN [res |-> "none", store |-> caldav, errors |-> errs, sent |-> FALSE]
    ELSE IF ok
    THEN [res |-> "true", errors |-> 0, sent |-> TRUE,
          store |-> Put(caldav, uid, [summary |-> ical.summary, status |-> ical.status,
                                      rrule |-> ical.rrule, due |-> ical.due,
                                      lm |-> CalDAVStamp(clock)])]
    ELSE [res |-> "false", store |-> caldav, errors |-> 0, sent |-> TRUE]

\* a request sent to a store: what it carries (the VTODO's STATUS and DUE, the
\* page's Scadenza; 0 is no date), whether the breaker was tripped when it was
\* sent, and whether the store accepted it
TWrite(side, op, uid, status, due, trig, ok) ==
    [side |-> side, op |-> op, uid |-> uid, status |-> status, due |-> due, trig |-> trig,
     ok |-> ok]

Tick(clock, n) == [clock EXCEPT !.t = @ + n]

\* sync() up to the first record: load_state, the fetch of the VTODOs and,
\* if there are any, the page cache of sync_caldav_to_notion; without VTODOs
\* the run goes on with sync_notion_to_caldav (lines 776-810, 556-564, 660)
TStartSync ==
    /\ t_pc = "idle"
    /\ t_runs < TMaxRuns
    /\ t_state' = t_file
    /\ t_todos' = t_caldav
    /\ circuit_breaker_errors' = 0
    /\ circuit_breaker_triggered' = FALSE
    /\ IF DOMAIN t_caldav = {}
       THEN /\ t_pc' = "n2c"
            /\ t_uid_map' = EmptyDict
            /\ t_pages' = t_notion
            /\ t_pending' = DOMAIN t_notion
       ELSE /\ t_pc' = "c2n"
            /\ t_uid_map' = [u \in DOMAIN t_notion |-> t_notion[u].lm]
            /\ t_pages' = EmptyDict
            /\ t_pending' = DOMAIN t_caldav
    /\ t_stats' = 0
    /\ t_runs' = t_runs + 1
    /\ t_writes' = {}
    /\ t_seen_done' = {}
    /\ t_warned' = {}
    /\ t_notified' = FALSE
    /\ UNCHANGED <<t_call, t_budget>>
    /\ t_caldav0' = t_caldav
    /\ t_notion0' = t_notion
    /\ t_file0' = t_file
    /\ UNCHANGED <<t_caldav, t_notion, t_file, t_clock, t_fails, t_userOps, t_hist>>
    /\ UNCHANGED <<cvars, bvars>>

\* One iteration of the loop of sync_caldav_to_notion (lines 572-642)
CalDAVToNotion ==
    /\ t_pc = "c2n"
    /\ t_pending # {}
    /\ LET uid == Min(t_pending)
           data == parse_vtodo(t_todos[uid], uid, t_clock)
           caldav_modified == data.last_modified
           is_completed == data.status = "Completato"
           has_rrule == data.rrule # ""
           existing == uid \in DOMAIN t_uid_map
           notion_modified == IF existing THEN t_uid_map[uid] ELSE <<>>
           shown == IF is_completed /\ has_rrule
                    THEN [data EXCEPT !.status = "In corso", !.completato = FALSE]
                    ELSE data
           has_old == uid \in DOMAIN t_notion
           old == IF has_old THEN t_notion[uid] ELSE build_notion_properties(shown, FALSE, shown, <<>>)
       IN
       /\ t_state' = [t_state EXCEPT !.caldav_modified = Put(@, uid, caldav_modified)]
       /\ t_seen_done' = IF is_completed /\ has_rrule THEN t_seen_done \cup {uid} ELSE t_seen_done
       /\ UNCHANGED <<t_warned, t_budget, t_notified>>
       /\ t_pending' = t_pending \ {uid}
       /\ t_clock' = Tick(t_clock, 1)
       /\ IF is_completed /\ ~has_rrule
          THEN \* a completed one-shot: archive its page
               IF existing
               THEN \E ok \in TOutcomes :
                      /\ t_notion' = IF ok THEN Drop(t_notion, uid) ELSE t_notion
                      /\ t_writes' = t_writes \cup {TWrite("notion", "archive", uid, "", 0,
                                                               circuit_breaker_triggered, ok)}
                      /\ t_stats' = IF ok THEN t_stats ELSE t_stats + 1
                      /\ t_fails' = IF ok THEN t_fails ELSE t_fails + 1
                      /\ UNCHANGED <<circuit_breaker_errors, circuit_breaker_triggered, t_call>>
               ELSE UNCHANGED <<t_notion, t_writes, t_stats, t_fails,
                                circuit_breaker_errors, circuit_breaker_triggered, t_call>>
          ELSE IF existing /\ notion_modified # <<>> /\ TsLe(caldav_modified, notion_modified)
          THEN \* SKIPPED (Notion more recent)
               UNCHANGED <<t_notion, t_writes, t_stats, t_fails,
                           circuit_breaker_errors, circuit_breaker_triggered, t_call>>
          ELSE \* upsert_notion_page
               \E outs \in TPlans :
                 LET r == with_retry(outs, circuit_breaker_errors, circuit_breaker_triggered)
                     op == IF existing THEN "update" ELSE "create"
                 IN  /\ t_notion' = IF r.res = "true"
                                    THEN Put(t_notion, uid,
                                             build_notion_properties(shown, has_old, old,
                                                                     NotionStamp(t_clock)))
                                    ELSE t_notion
                     /\ t_writes' = IF circuit_breaker_triggered THEN t_writes
                                    ELSE t_writes \cup {TWrite("notion", op, uid, "", shown.due, FALSE,
                                                                r.res = "true")}
                     /\ t_stats' = IF r.res = "true" THEN t_stats ELSE t_stats + 1
                     /\ t_fails' = IF circuit_breaker_triggered THEN t_fails
                                   ELSE t_fails + FailuresOf(SubSeq(outs, 1, r.calls))
                     /\ circuit_breaker_errors' = r.errors
                     /\ circuit_breaker_triggered' = r.triggered
                     /\ t_call' = CallRecord(outs, circuit_breaker_errors,
                                             circuit_breaker_triggered, r)
    /\ UNCHANGED <<t_caldav, t_file, t_pc, t_todos, t_uid_map, t_pages, t_runs,
                   t_caldav0, t_notion0, t_file0, t_userOps, t_hist>>
    /\ UNCHANGED <<cvars, bvars>>

\* a faulty start of the second sweep that keeps the breaker as the first sweep
\* left it; C17 tells it from StartNotionToCalDAV
StartNotionToCalDAVNoReset ==
    /\ t_pc = "c2n"
    /\ t_pending = {}
    /\ UNCHANGED <<circuit_breaker_errors, circuit_breaker_triggered>>
    /\ t_pages' = t_notion
    /\ t_pending' = DOMAIN t_notion
    /\ t_pc' = "n2c"
    /\ UNCHANGED <<t_caldav, t_notion, t_file, t_clock, t_state, t_todos, t_uid_map, t_stats,
                   t_runs, t_writes, t_seen_done, t_warned, t_call, t_budget, t_notified, t_caldav0, t_notion0, t_file0, t_fails,
                   t_userOps, t_hist>>
    /\ UNCHANGED <<cvars, bvars>>

\* The end of sync_caldav_to_notion, the reset of the circuit breaker between
\* the two directions, and the fetch of sync_notion_to_caldav (lines 805-810, 660)
StartNotionToCalDAV ==
    /\ t_pc = "c2n"
    /\ t_pending = {}
    /\ circuit_breaker_errors' = 0
    /\ circuit_breaker_triggered' = FALSE
    /\ t_pages' = t_notion
    /\ t_pending' = DOMAIN t_notion
    /\ t_pc' = "n2c"
    /\ UNCHANGED <<t_caldav, t_notion, t_file, t_clock, t_state, t_todos, t_uid_map, t_stats,
                   t_runs, t_writes, t_seen_done, t_warned, t_call, t_budget, t_notified, t_caldav0, t_notion0, t_file0, t_fails,
                   t_userOps, t_hist>>
    /\ UNCHANGED <<cvars, bvars>>

\* One iteration of the loop of sync_notion_to_caldav (lines 664-761).  It
\* sends at most one request to CalDAV (outcome okc) and then at most one to
\* Notion (outcome okn), which is stamped an instant later.
NotionToCalDAV ==
    /\ t_pc = "n2c"
    /\ t_pending # {}
    /\ LET uid == Min(t_pending)
           data == parse_notion_page(t_pages[uid], uid)
           notion_modified == data.last_modified
           caldav_modified == IF uid \in DOMAIN t_state.caldav_modified
                              THEN t_state.caldav_modified[uid] ELSE <<>>
           has_rrule == data.rrule # ""
           completato == data.completato
           calendar == find_calendar_by_name(data.list_name)
           found == next_rrule_occurrence(data.rrule, data.due, t_clock.d)
           next_due == IF found # 0 THEN found ELSE t_clock.d + 1
           advanced_data == [data EXCEPT !.due = next_due, !.status = "In corso",
                                         !.completato = FALSE]
           ical == build_ical_todo(IF completato /\ has_rrule THEN advanced_data ELSE data)
           skipped == caldav_modified # <<>> /\ TsLe(notion_modified, caldav_modified)
           to_caldav == IF completato THEN calendar ELSE ~skipped /\ calendar
           to_notion == completato
           live == uid \in DOMAIN t_notion
       IN
       /\ \E okc \in TOutcomes : \E okn \in TOutcomes :
         LET upd == IF to_caldav
                    THEN update_caldav_todo(t_caldav, uid, ical, okc, circuit_breaker_errors,
                                            circuit_breaker_triggered, t_clock)
                    ELSE [res |-> "none", store |-> t_caldav,
                          errors |-> circuit_breaker_errors, sent |-> FALSE]
             wc == IF upd.sent
                   THEN {TWrite("caldav", IF uid \in DOMAIN t_caldav THEN "update" ELSE "create",
                                uid, ical.status, ical.due, FALSE, upd.res = "true")}
                   ELSE {}
             wn == IF to_notion
                   THEN {TWrite("notion", IF has_rrule THEN "reset" ELSE "archive", uid, "",
                                IF has_rrule THEN next_due ELSE 0,
                                circuit_breaker_triggered, okn)}
                   ELSE {}
             failed == (IF upd.sent /\ ~okc THEN 1 ELSE 0) + (IF to_notion /\ ~okn THEN 1 ELSE 0)
         IN  /\ t_fails + failed <= t_budget
             /\ (~upd.sent => okc) /\ (~to_notion => okn)
             /\ t_caldav' = upd.store
             /\ circuit_breaker_errors' = upd.errors
             /\ t_call' = IF to_caldav
                          THEN [outs |-> IF upd.sent THEN <<"ok">> ELSE <<>>,
                                errs0 |-> circuit_breaker_errors,
                                trig0 |-> circuit_breaker_triggered, res |-> upd.res,
                                calls |-> IF upd.sent THEN 1 ELSE 0, sleeps |-> <<>>,
                                errors |-> upd.errors,
                                triggered |-> circuit_breaker_triggered]
                          ELSE t_call
             /\ t_notion' =
                  IF to_notion /\ okn /\ live
                  THEN IF has_rrule
                       THEN [t_notion EXCEPT ![uid].done = FALSE, ![uid].due = next_due,
                                             ![uid].lm = NotionStamp(Tick(t_clock, 1))]
                       ELSE Drop(t_notion, uid)
                  ELSE t_notion
             /\ t_writes' = t_writes \cup wc \cup wn
             /\ t_fails' = t_fails + failed
             /\ t_stats' = IF ~completato /\ to_caldav /\ upd.res # "true"
                           THEN t_stats + 1 ELSE t_stats
       /\ t_state' = [t_state EXCEPT !.notion_modified = Put(@, uid, notion_modified)]
       /\ t_seen_done' = IF completato /\ has_rrule THEN t_seen_done \cup {uid} ELSE t_seen_done
       /\ t_warned' = IF completato /\ has_rrule /\ found = 0 THEN t_warned \cup {uid} ELSE t_warned
       /\ t_pending' = t_pending \ {uid}
       /\ t_clock' = Tick(t_clock, 2)
    /\ UNCHANGED <<t_file, t_pc, t_todos, t_uid_map, t_pages, circuit_breaker_triggered, t_budget, t_notified,
                   t_runs, t_caldav0, t_notion0, t_file0, t_userOps, t_hist>>
    /\ UNCHANGED <<cvars, bvars>>

\* what the properties keep of a finished run of the task sync
THistEntry ==
    [nwrites |-> Cardinality(t_writes), userOps |-> t_userOps,
     clean |-> (t_stats = 0 /\ \A w \in t_writes : w.ok)]

\* a faulty end of run that leaves STATE_FILE as it was; C16 tells it from TFinishSync
TFinishSyncNoSave ==
    /\ t_pc = "n2c"
    /\ t_pending = {}
    /\ t_file' = t_file
    /\ t_notified' = circuit_breaker_triggered
    /\ circuit_breaker_triggered' = FALSE
    /\ t_pc' = "idle"
    /\ t_hist' = Append(t_hist, THistEntry)
    /\ UNCHANGED <<t_caldav, t_notion, t_clock, t_state, t_todos, t_uid_map, t_pages,
                   t_pending, circuit_breaker_errors, t_stats, t_runs, t_writes, t_seen_done,
                   t_warned, t_call, t_budget, t_caldav0, t_notion0, t_file0, t_fails,
                   t_userOps>>
    /\ UNCHANGED <<cvars, bvars>>

\* save_state and the end of sync() (lines 817-845): the breaker is notified
\* of only if it is tripped now
TFinishSync ==
    /\ t_pc = "n2c"
    /\ t_pending = {}
    /\ t_file' = t_state
    /\ t_notified' = circuit_breaker_triggered
    /\ circuit_breaker_triggered' = FALSE
    /\ t_pc' = "idle"
    /\ t_hist' = Append(t_hist, THistEntry)
    /\ UNCHANGED <<t_caldav, t_notion, t_clock, t_state, t_todos, t_uid_map, t_pages,
                   t_pending, circuit_breaker_errors, t_stats, t_runs, t_writes, t_seen_done,
                   t_warned, t_call, t_budget, t_caldav0, t_notion0, t_file0, t_fails,
                   t_userOps>>
    /\ UNCHANGED <<cvars, bvars>>

(***************************************************************************)
(* The users of the two task stores, and the calendar, between two runs.   *)
(***************************************************************************)
TBetweenRuns == t_pc = "idle" /\ 0 < t_runs /\ t_runs < TMaxRuns

TUserChange(c, n) ==
    /\ TBetweenRuns
    /\ t_userOps < TMaxUserOps
    /\ t_caldav' = c
    /\ t_notion' = n
    /\ t_userOps' = t_userOps + 1
    /\ t_clock' = Tick(t_clock, 1)
    /\ UNCHANGED <<t_file, t_pc, t_state, t_todos, t_uid_map, t_pages, t_pending,
                   circuit_breaker_errors, circuit_breaker_triggered, t_stats, t_runs,
                   t_writes, t_seen_done, t_warned, t_call, t_budget, t_notified, t_caldav0, t_notion0, t_file0, t_fails, t_hist>>
    /\ UNCHANGED <<cvars, bvars>>

TUserEditCalDAV ==
    \E u \in DOMAIN t_caldav :
        TUserChange([t_caldav EXCEPT ![u].summary = "b", ![u].lm = CalDAVStamp(t_clock)],
                    t_notion)

TUserCompleteCalDAV ==
    \E u \in DOMAIN t_caldav :
        /\ t_caldav[u].status # "COMPLETED"
        /\ TUserChange([t_caldav EXCEPT ![u].status = "COMPLETED",
                                        ![u].lm = CalDAVStamp(t_clock)], t_notion)

TUserDeleteCalDAV == \E u \in DOMAIN t_caldav : TUserChange(Drop(t_caldav, u), t_notion)

TUserEditNotion ==
    \E u \in DOMAIN t_notion :
        TUserChange(t_caldav,
                    [t_notion EXCEPT ![u].summary = "c", ![u].lm = NotionStamp(t_clock)])

TUserTickNotion ==
    \E u \in DOMAIN t_notion :
        /\ ~t_notion[u].done
        /\ TUserChange(t_caldav,
                       [t_notion EXCEPT ![u].done = TRUE, ![u].lm = NotionStamp(t_clock)])

TUserDeleteNotion == \E u \in DOMAIN t_notion : TUserChange(t_caldav, Drop(t_notion, u))

\* midnight
NextDay ==
    /\ TBetweenRuns
    /\ t_clock.d < MaxDay
    /\ t_clock' = [d |-> t_clock.d + 1, t |-> 0]
    /\ UNCHANGED <<t_caldav, t_notion, t_file, t_pc, t_state, t_todos, t_uid_map, t_pages,
                   t_pending, circuit_breaker_errors, circuit_breaker_triggered, t_stats,
                   t_runs, t_writes, t_seen_done, t_warned, t_call, t_budget, t_notified, t_caldav0, t_notion0, t_file0, t_fails,
                   t_userOps, t_hist>>
    /\ UNCHANGED <<cvars, bvars>>

(***************************************************************************)
(* Initial states of the task engine: no state file yet, the clock on day  *)
(* 1, and for every UID a VTODO, a page, both or neither, last modified    *)
(* the day before or the same day.                                         *)
(***************************************************************************)
TodoChoices ==
    {[there |-> FALSE, summary |-> "a", status |-> "NEEDS-ACTION", rrule |-> "", due |-> 0,
      lm |-> <<>>]}
    \cup {[there |-> TRUE, summary |-> "a", status |-> st, rrule |-> rr, due |-> 1,
           lm |-> <<d, 0, 0>>] :
            st \in {"NEEDS-ACTION", "COMPLETED"}, rr \in {"", "FREQ=DAILY"}, d \in {0, 1}}
    \cup {\* a VTODO without a title and without due date
          [there |-> TRUE, summary |-> "", status |-> "NEEDS-ACTION", rrule |-> "", due |-> 0,
           lm |-> <<1, 0, 0>>],
          \* a VTODO with neither LAST-MODIFIED nor DTSTAMP
          [there |-> TRUE, summary |-> "a", status |-> "NEEDS-ACTION", rrule |-> "", due |-> 1,
           lm |-> <<>>]}

PageChoices ==
    {[there |-> FALSE, summary |-> "a", done |-> FALSE, rrule |-> "", due |-> 0,
      list |-> "", lm |-> <<>>]}
    \cup {[there |-> TRUE, summary |-> "a", done |-> dn, rrule |-> rr, due |-> 1,
           list |-> "Tasks", lm |-> <<d, 1, 0>>] :
            dn \in BOOLEAN, rr \in {"", "FREQ=DAILY"}, d \in {0, 1}}
    \cup {\* a page of a list that is no calendar
          [there |-> TRUE, summary |-> "a", done |-> FALSE, rrule |-> "", due |-> 1,
           list |-> "", lm |-> <<1, 1, 0>>],
          \* a repeating page of a list that is no calendar
          [there |-> TRUE, summary |-> "a", done |-> FALSE, rrule |-> "FREQ=DAILY", due |-> 1,
           list |-> "", lm |-> <<1, 1, 0>>],
          \* a page ticked Done that repeats every hour
          [there |-> TRUE, summary |-> "a", done |-> TRUE, rrule |-> "FREQ=HOURLY", due |-> 1,
           list |-> "Tasks", lm |-> <<1, 1, 0>>],
          \* a page ticked Done whose Periodicita` is no RRULE
          [there |-> TRUE, summary |-> "a", done |-> TRUE, rrule |-> "bad", due |-> 1,
           list |-> "Tasks", lm |-> <<1, 1, 0>>]}
    \cup {\* pages ticked Done whose rule has run out: without due date, due on
          \* day 1 and due on day 2
          [there |-> TRUE, summary |-> "a", done |-> TRUE, rrule |-> "FREQ=DAILY;COUNT=1",
           due |-> d, list |-> "Tasks", lm |-> <<1, 1, 0>>] : d \in {0, 1, 2}}

TodoOf(x) == [summary |-> x.summary, status |-> x.status, rrule |-> x.rrule, due |-> x.due,
              lm |-> x.lm]
PageOf(x) == [summary |-> x.summary, done |-> x.done, rrule |-> x.rrule, due |-> x.due,
              list |-> x.list, lm |-> x.lm]

ContactsAtRest == InitWith([i \in 1..MaxContacts |-> NoContact])

InitTasks ==
    /\ ContactsAtRest
    /\ \E todos \in [1..MaxTasks -> TodoChoices] : \E pages \in [1..MaxTasks -> PageChoices] :
        /\ t_caldav = [u \in {i \in 1..MaxTasks : todos[i].there} |-> TodoOf(todos[u])]
        /\ t_notion = [u \in {i \in 1..MaxTasks : pages[i].there} |-> PageOf(pages[u])]
    /\ t_file = EmptyState
    /\ t_clock = [d |-> 1, t |-> 1]
    /\ t_pc = "idle" /\ t_state = EmptyState
    /\ t_todos = EmptyDict /\ t_uid_map = EmptyDict /\ t_pages = EmptyDict
    /\ t_pending = {}
    /\ circuit_breaker_errors = 0 /\ circuit_breaker_triggered = FALSE
    /\ t_stats = 0 /\ t_runs = 0 /\ t_writes = {} /\ t_seen_done = {} /\ t_warned = {}
    /\ t_call = NoCall /\ t_budget = TMaxFails /\ t_notified = FALSE
    /\ t_caldav0 = EmptyDict /\ t_notion0 = EmptyDict /\ t_file0 = EmptyState
    /\ t_fails = 0 /\ t_userOps = 0 /\ t_hist = <<>>

NextTasks ==
    \/ TStartSync
    \/ CalDAVToNotion
    \/ StartNotionToCalDAV
    \/ NotionToCalDAV
    \/ TFinishSync
    \/ TUserEditCalDAV
    \/ TUserCompleteCalDAV
    \/ TUserDeleteCalDAV
    \/ TUserEditNotion
    \/ TUserTickNotion
    \/ TUserDeleteNotion
    \/ NextDay

SpecTasks == InitTasks /\ [][NextTasks]_vars

(***************************************************************************)
(* One run of the task sync over enough VTODOs to trip the breaker: the    *)
(* first BreakerTasks - 1 are open VTODOs without a page, which the first  *)
(* sweep sends to upsert_notion_page; the last one and its page vary.      *)
(***************************************************************************)
BreakerTasks == 5
BreakerFails == 10

OpenTodo == [summary |-> "a", status |-> "NEEDS-ACTION", rrule |-> "", due |-> 1,
             lm |-> <<1, 0, 0>>]

BreakerTodos ==
    {OpenTodo,
     [OpenTodo EXCEPT !.status = "COMPLETED"],
     [OpenTodo EXCEPT !.status = "COMPLETED", !.rrule = "FREQ=DAILY"]}

BreakerPages ==
    {[there |-> FALSE, summary |-> "a", done |-> FALSE, rrule |-> "", due |-> 0,
      list |-> "", lm |-> <<>>],
     [there |-> TRUE, summary |-> "a", done |-> FALSE, rrule |-> "", due |-> 1,
      list |-> "Tasks", lm |-> <<0, 1, 0>>],
     [there |-> TRUE, summary |-> "a", done |-> TRUE, rrule |-> "FREQ=DAILY", due |-> 1,
      list |-> "Tasks", lm |-> <<1, 1, 0>>]}

InitBreaker ==
    /\ ContactsAtRest
    /\ \E last \in BreakerTodos : \E page \in BreakerPages :
        /\ t_caldav = [u \in 1..BreakerTasks |-> IF u < BreakerTasks THEN OpenTodo ELSE last]
        /\ t_notion = [u \in {i \in {BreakerTasks} : page.there} |-> PageOf(page)]
    /\ t_file = EmptyState
    /\ t_clock = [d |-> 1, t |-> 1]
    /\ t_pc = "idle" /\ t_state = EmptyState
    /\ t_todos = EmptyDict /\ t_uid_map = EmptyDict /\ t_pages = EmptyDict
    /\ t_pending = {}
    /\ circuit_breaker_errors = 0 /\ circuit_breaker_triggered = FALSE
    /\ t_stats = 0 /\ t_writes = {} /\ t_seen_done = {} /\ t_warned = {}
    /\ t_runs = TMaxRuns - 1
    /\ t_call = NoCall /\ t_budget = BreakerFails /\ t_notified = FALSE
    /\ t_caldav0 = EmptyDict /\ t_notion0 = EmptyDict /\ t_file0 = EmptyState
    /\ t_fails = 0 /\ t_userOps = 0 /\ t_hist = <<>>

NextBreaker ==
    \/ TStartSync
    \/ CalDAVToNotion
    \/ StartNotionToCalDAV
    \/ NotionToCalDAV
    \/ TFinishSync

SpecBreaker == InitBreaker /\ [][NextBreaker]_vars

\* the process runs sync() alone, one statement after the other, and every
\* request and every sleep returns: a step that can be taken is taken
SpecBreakerLive == SpecBreaker /\ WF_vars(NextBreaker)

(***************************************************************************)
(* Calls of a function under with_retry on their own: the breaker is in    *)
(* any state a sweep can leave it in (tripped exactly when the counter has *)
(* reached the threshold), and each attempt meets a success, a failure     *)
(* that is retried, or a validation error.                                 *)
(***************************************************************************)
AttemptPlans == [1..MAX_RETRIES -> {"ok", "err", "400"}]

InitRetry ==
    /\ ContactsAtRest
    /\ t_caldav = EmptyDict /\ t_notion = EmptyDict /\ t_file = EmptyState
    /\ t_clock = [d |-> 1, t |-> 1]
    /\ t_pc = "idle" /\ t_state = EmptyState
    /\ t_todos = EmptyDict /\ t_uid_map = EmptyDict /\ t_pages = EmptyDict
    /\ t_pending = {}
    /\ circuit_breaker_errors \in 0..CIRCUIT_BREAKER_THRESHOLD
    /\ circuit_breaker_triggered = (circuit_breaker_errors >= CIRCUIT_BREAKER_THRESHOLD)
    /\ t_stats = 0 /\ t_runs = 0 /\ t_writes = {} /\ t_seen_done = {} /\ t_warned = {}
    /\ t_call = NoCall /\ t_budget = 0 /\ t_notified = FALSE
    /\ t_caldav0 = EmptyDict /\ t_notion0 = EmptyDict /\ t_file0 = EmptyState
    /\ t_fails = 0 /\ t_userOps = 0 /\ t_hist = <<>>

\* one call of a wrapped function (lines 133-157)
RetryCall ==
    /\ \E outs \in AttemptPlans :
         LET r == with_retry(outs, circuit_breaker_errors, circuit_breaker_triggered)
         IN  /\ t_call' = CallRecord(outs, circuit_breaker_errors, circuit_breaker_triggered, r)
             /\ circuit_breaker_errors' = r.errors
             /\ circuit_breaker_triggered' = r.triggered
    /\ UNCHANGED <<t_caldav, t_notion, t_file, t_clock, t_pc, t_state, t_todos, t_uid_map,
                   t_pages, t_pending, t_stats, t_runs, t_writes, t_seen_done, t_warned,
                   t_budget, t_notified, t_caldav0, t_notion0, t_file0, t_fails, t_userOps, t_hist>>
    /\ UNCHANGED <<cvars, bvars>>

NextRetry == RetryCall

SpecRetry == InitRetry /\ [][NextRetry]_vars

(***************************************************************************)
(* Properties of the task sync.                                            *)
(***************************************************************************)
\* a run of the task sync has ended and no user has touched a store since
TRunEnded == t_pc = "idle" /\ Len(t_hist) > 0 /\ t_hist[Len(t_hist)].userOps = t_userOps

\* the last two runs followed each other with no user change in between, and
\* in both every request succeeded and no error was counted
TTwoRunsInSuccession ==
    /\ t_pc = "idle"
    /\ Len(t_hist) >= 2
    /\ LET a == t_hist[Len(t_hist) - 1]
           b == t_hist[Len(t_hist)]
       IN  a.clean /\ b.clean /\ a.userOps = b.userOps

\* C5: when the task sync runs twice in succession and nobody changes CalDAV
\* or Notion in between (a write of the engine stamps the record it writes
\* with the time of the write), the second run writes nothing to CalDAV and
\* nothing to Notion.
C5_SecondTaskRunWritesNothing == TTwoRunsInSuccession => t_hist[Len(t_hist)].nwrites = 0

\* the tasks with recorded state that one store had lost and the other still
\* had when the run started
Recorded0(u) ==
    u \in DOMAIN t_file0.caldav_modified \/ u \in DOMAIN t_file0.notion_modified
LostOnOneSide0 ==
    {u \in 1..MaxTasks : Recorded0(u) /\ ((u \in DOMAIN t_caldav0) # (u \in DOMAIN t_notion0))}

\* C8: a task with recorded state that is absent on exactly one side and
\* present on the other when a run starts is, when the run has ended, removed
\* from the other side too and has no state entry left; it has not been
\* created again on the side it had disappeared from.
C8_TaskDeletionPropagates ==
    TRunEnded => \A u \in LostOnOneSide0 :
        /\ u \notin DOMAIN t_caldav
        /\ u \notin DOMAIN t_notion
        /\ u \notin DOMAIN t_file.caldav_modified
        /\ u \notin DOMAIN t_file.notion_modified

\* the requests of the run that end the life of task u: a delete or an
\* archive on either side, or a VTODO with STATUS:COMPLETED put on CalDAV
EndingWrites(u) ==
    {w \in t_writes : /\ w.uid = u
                      /\ \/ w.op \in {"delete", "archive"}
                         \/ w.side = "caldav" /\ w.status = "COMPLETED"}

\* C10: for a task of which the run has read a record that is recurring
\* (non-empty repetition rule) and completed, on CalDAV or on Notion, the run
\* sends no delete and no archive to either side and puts no VTODO with
\* STATUS:COMPLETED on CalDAV.
C10_RecurringNeverEnded == \A u \in t_seen_done : EndingWrites(u) = {}


(***************************************************************************)
(* Recurring completion (sync.py lines 617-628 and 688-723).               *)
(***************************************************************************)
LastRunClean == TRunEnded /\ t_hist[Len(t_hist)].clean

\* both stores carried the same repetition rule for every task at the start of the run
RulesAgreed0 ==
    \A u \in DOMAIN t_caldav0 \cap DOMAIN t_notion0 : t_caldav0[u].rrule = t_notion0[u].rrule

\* recurring tasks that were complete on CalDAV or on Notion when the run started
RecurringDone0 ==
    {u \in DOMAIN t_caldav0 : t_caldav0[u].status = "COMPLETED" /\ t_caldav0[u].rrule # ""}
    \cup {u \in DOMAIN t_notion0 : t_notion0[u].done /\ t_notion0[u].rrule # ""}

NotDone(u) ==
    /\ (u \in DOMAIN t_caldav => t_caldav[u].status # "COMPLETED")
    /\ (u \in DOMAIN t_notion => ~t_notion[u].done)

\* C11: after a run, every recurring task that was marked complete on either
\* side reads "not done" on both sides: the VTODO's STATUS is not COMPLETED
\* and the page's Completato is not Done.  Stated here for the runs in which
\* every request succeeded and both sides agreed on the repetition rule.
C11_RecurringCompletionReset ==
    (LastRunClean /\ RulesAgreed0) => \A u \in RecurringDone0 : NotDone(u)


\* the pages the second sweep of this run has read as ticked Done with a rule
NotionDoneRecurring ==
    {u \in DOMAIN t_pages \ t_pending : t_pages[u].done /\ t_pages[u].rrule # ""}

YieldsNext(u) == next_rrule_occurrence(t_pages[u].rrule, t_pages[u].due, t_clock.d) # 0

\* the due dates the run has sent for u: DUE of the VTODO, Scadenza of the reset
CalDAVDues(u) == {w.due : w \in {x \in t_writes : x.uid = u /\ x.side = "caldav"}}
ResetDues(u) == {w.due : w \in {x \in t_writes : x.uid = u /\ x.op = "reset"}}

\* C12: for a recurring task ticked Done in Notion whose rule yields a further
\* occurrence, the run writes one new due date, the same to CalDAV and to
\* Notion, and it is strictly later than the due date the page had.  Stated
\* here for the pages whose Lista names a calendar of the server.
C12_DueStrictlyAdvances ==
    \A u \in NotionDoneRecurring :
        (YieldsNext(u) /\ find_calendar_by_name(t_pages[u].list)) =>
            /\ CalDAVDues(u) = ResetDues(u)
            /\ \E d \in ResetDues(u) : ResetDues(u) = {d} /\ d > t_pages[u].due


\* C13: for a recurring task ticked Done whose rule yields no further
\* occurrence, the new due date the run writes is the prior due date plus one
\* day, whatever the prior due date, and the warning is logged.  Stated here
\* for the pages that have a due date.
C13_FallbackOneDayAfterDue ==
    \A u \in NotionDoneRecurring :
        (~YieldsNext(u) /\ t_pages[u].due # 0) =>
            /\ u \in t_warned
            /\ \A d \in CalDAVDues(u) \cup ResetDues(u) : d = t_pages[u].due + 1


(***************************************************************************)
(* One-shot completion (sync.py lines 603-615 and 724-735).                *)
(***************************************************************************)
\* the VTODOs the first sweep of this run has handled and that are completed
\* without a rule, and the pages the second sweep has read as Done without one
DoneOneShotCalDAV ==
    {u \in DOMAIN t_todos : /\ t_pc # "c2n" \/ u \notin t_pending
                            /\ t_todos[u].status = "COMPLETED" /\ t_todos[u].rrule = ""}
DoneOneShotNotion ==
    {u \in DOMAIN t_pages \ t_pending : t_pages[u].done /\ t_pages[u].rrule = ""}

WritesOf(u, side, op) == {w \in t_writes : w.uid = u /\ w.side = side /\ w.op = op}

C15_BreakerContainment ==
    /\ \A w \in t_writes : ~w.trig
    /\ t_call.trig0 => (t_call.calls = 0 /\ t_call.sleeps = <<>>)


\* every VTODO and every page the run fetched has been visited (each visit
\* notes the record's timestamp in the SyncState, lines 591 and 678), and
\* save_state has written that SyncState
VisitedAndSaved ==
    /\ DOMAIN t_todos \subseteq DOMAIN t_state.caldav_modified
    /\ DOMAIN t_pages \subseteq DOMAIN t_state.notion_modified
    /\ t_file = t_state

\* C16: whatever remote writes fail, the breaker tripping included, a run
\* that has started comes to its end, and at the end both sweeps have visited
\* every record they fetched and save_state has stored the state collected.
C16_RunTerminatesAndSaves ==
    /\ [](TRunEnded => VisitedAndSaved)
    /\ (t_runs = TMaxRuns - 1) ~> TRunEnded

\* a run has ended whose last call under with_retry tripped the breaker
C16_Witness == TRunEnded /\ t_call.triggered /\ t_todos # EmptyDict /\ VisitedAndSaved


\* the second sweep has fetched its pages and has visited none yet
SweepTwoStart == t_pc = "n2c" /\ t_pending = DOMAIN t_pages

\* C17: when the Notion -> CalDAV sweep starts, the error counter is 0 and
\* the breaker is not tripped, whatever failed and whether or not the breaker
\* tripped in the CalDAV -> Notion sweep; the breaker is not tripped anywhere
\* in the second sweep, so its writes are attempted.
C17_BreakerResetBetweenSweeps ==
    /\ SweepTwoStart => circuit_breaker_errors = 0
    /\ t_pc = "n2c" => ~circuit_breaker_triggered

\* the second sweep starts with a page to visit after a first sweep whose last
\* call under with_retry tripped the breaker
C17_Witness ==
    /\ SweepTwoStart /\ t_pages # EmptyDict
    /\ t_call.triggered
    /\ circuit_breaker_errors = 0 /\ ~circuit_breaker_triggered


\* what the last invocation of the call in t_call met
LastMet == t_call.outs[t_call.calls]

\* the wrapped function is invoked at most MAX_RETRIES times, and the call
\* sleeps 2^attempt seconds after each attempt but the last one it makes
BoundedAttempts ==
    /\ t_call.calls <= MAX_RETRIES
    /\ Len(t_call.sleeps) = (IF t_call.calls = 0 THEN 0 ELSE t_call.calls - 1)
    /\ \A i \in 1..Len(t_call.sleeps) : t_call.sleeps[i] = 2 ^ (i - 1)

\* the result is what the function returned: True, or the False of update_caldav_todo
ReturnsResult == t_call.res \in {"true", "false"} /\ t_call.calls >= 1 /\ LastMet = "ok"
ReturnsNoneTripped == t_call.res = "none" /\ t_call.triggered
RaisesAfterThird == t_call.res = "raise" /\ t_call.calls = MAX_RETRIES
RaisesValidation == t_call.res = "raise" /\ t_call.calls >= 1 /\ LastMet = "400"

\* C18 as stated: a call under with_retry invokes the wrapped function at
\* most MAX_RETRIES times, sleeps 2^attempt seconds between attempts only,
\* and ends in the function's result, in None with the breaker tripped, or
\* in the exception re-raised after the third failure.
C18_RetryOutcomes ==
    t_call # NoCall =>
        /\ BoundedAttempts
        /\ ReturnsResult \/ ReturnsNoneTripped \/ RaisesAfterThird

\* C18, amended: the same, with a fourth outcome: a validation error (status
\* 400) re-raised from the attempt that met it, which can be the first.
C18_RetryOutcomesWithValidation ==
    t_call # NoCall =>
        /\ BoundedAttempts
        /\ ReturnsResult \/ ReturnsNoneTripped \/ RaisesAfterThird \/ RaisesValidation

\* a call that failed twice, slept 1 and 2 seconds, failed a third time and
\* re-raised, without a sleep after the third failure
C18_Witness ==
    /\ t_call.outs = <<"err", "err", "err">> /\ t_call.res = "raise"
    /\ t_call.calls = MAX_RETRIES /\ t_call.sleeps = <<1, 2>>


\* a step of the first sweep whose upsert_notion_page ended in a validation error
ValidationStep ==
    /\ t_pc = "c2n"
    /\ \E w \in t_writes' \ t_writes : w.op \in {"create", "update"}
    /\ t_call'.res = "raise" /\ t_call'.outs[t_call'.calls] = "400"

\* the caller counts one error for the record and goes on with the next one
CountedAndContinued ==
    /\ t_stats' = t_stats + 1
    /\ t_pc' = "c2n" /\ t_pending' = t_pending \ {Min(t_pending)}

\* C19 as stated: a validation error (status 400) of a wrapped write is
\* re-raised after exactly one invocation, without retry or sleep, with the
\* breaker's counter and flag unchanged, and the caller counts one error for
\* the record and goes on.
C19_ValidationNotRetried ==
    [][ValidationStep =>
         /\ t_call'.calls = 1 /\ t_call'.sleeps = <<>>
         /\ circuit_breaker_errors' = circuit_breaker_errors
         /\ circuit_breaker_triggered' = circuit_breaker_triggered
         /\ CountedAndContinued]_vars

\* C19, amended: the validation error is re-raised from the attempt that met
\* it, with no sleep and no attempt after it, and it is not counted; the
\* failures of earlier attempts of the same call stay counted and their sleeps
\* taken.  The caller counts one error for the record and goes on.
C19_ValidationEndsTheCall ==
    [][ValidationStep =>
         /\ Len(t_call'.sleeps) = t_call'.calls - 1
         /\ circuit_breaker_errors' = circuit_breaker_errors + (t_call'.calls - 1)
         /\ circuit_breaker_triggered' = circuit_breaker_triggered
         /\ CountedAndContinued]_vars

\* the first sweep has met a validation error at the first attempt for one
\* record, has counted it, and has records left to visit
C19_Witness ==
    /\ t_pc = "c2n" /\ t_pending # {}
    /\ t_call.outs = <<"400">> /\ t_call.res = "raise" /\ t_call.calls = 1
    /\ circuit_breaker_errors = t_call.errs0 /\ ~circuit_breaker_triggered
    /\ t_stats = 1


\* the requests this step has sent and the store has refused, but for an
\* upsert_notion_page whose first attempt met a validation error
TransientFailures ==
    {w \in t_writes' \ t_writes :
        /\ ~w.ok
        /\ ~(w.side = "notion" /\ w.op \in {"create", "update"} /\ t_call'.outs[1] = "400")}

\* C20: every remote write of the task sync goes through the retry wrapper,
\* so a transient failure of a write is counted against the breaker: the step
\* that meets it leaves the error counter higher than it found it.
C20_WritesThroughWrapper ==
    [][TransientFailures # {} => circuit_breaker_errors' > circuit_breaker_errors]_vars


\* C21: if the breaker trips during a run of the task sync, in either sweep,
\* the run sends the notification about the breaker before it ends.
C21_BreakerTripNotified == circuit_breaker_triggered ~> t_notified


(***************************************************************************)
(* DRY_RUN in the contacts sync (sync.py lines 463-488 and 509-662).       *)
(***************************************************************************)
\* C22: in a run with DRY_RUN the contacts sync sends no create, update or
\* delete to Google or to CardDAV, in no phase: no request is recorded and,
\* while the run lasts, both stores are as the run found them.
C22_DryRunWritesNothing ==
    dry => /\ writes = {}
           /\ pc # "idle" => (google = google0 /\ carddav = carddav0)

\* a dry run has ended that found a pair in the Matching Phase and visited
\* identifiers in the Reconciliation Phase
C22_Witness ==
    /\ dry /\ pc = "idle" /\ runs > 0 /\ ~aborted
    /\ DOMAIN paired # {}
    /\ stats.skipped + stats.c_created + stats.g_created + stats.deleted > 0

\* C23: a run with DRY_RUN leaves the Link State Store as it found it: the
\* set of Links and the fields of every Link are those of the start of the run.
C23_DryRunKeepsLinks == dry => db = db0

(***************************************************************************)
(* The Link State Store (sync.py lines 348-364, 463-485, 640-662).         *)
(***************************************************************************)
\* no two Links of store d carry the same value in field f
UniqueIn(d, f) == \A u, v \in DOMAIN d : d[u][f] = d[v][f] => u = v

\* C24: whatever runs and remote failures came before, the Link State Store
\* holds at most one Link per synchronization identifier, each Google resource
\* name is in at most one Link and each CardDAV href is in at most one Link.
C24_LinksUnique ==
    /\ UniqueIn(db, "google_res") /\ UniqueIn(db, "carddav_href")
    /\ UniqueIn(dbw, "google_res") /\ UniqueIn(dbw, "carddav_href")

(***************************************************************************)
(* Records without content (sync.py lines 53-80 and 435-460).              *)
(***************************************************************************)
\* a record with no name (and, in this model, no e-mail and no phone)
NoContent(n) == Strip(n) = ""
\* the hrefs and the resource names of the records without content that the
\* run found unlinked: no Link and no externalId names them
EmptyUnlinkedC ==
    {h \in DOMAIN carddav0 :
        /\ NoContent(carddav0[h].fn)
        /\ carddav0[h].uid \notin DOMAIN db0
        /\ \A r \in DOMAIN google0 : google0[r].ext # carddav0[h].uid}
EmptyUnlinkedG ==
    {r \in DOMAIN google0 : NoContent(google0[r].name) /\ google0[r].ext = 0}

\* C25: the Matching Phase pairs no record whose fingerprint is empty, so two
\* records without content are never paired; such a record reaches the other
\* side by a creation only: the run neither updates nor deletes it (the one
\* request that names it is the anchor of the new UID on the Google contact).
C25_EmptyFingerprintNeverPaired ==
    /\ \A u \in DOMAIN paired :
            /\ ~NoContent(c_contacts[u].vcard.fn)
            /\ ~NoContent(google0[paired[u]].name)
    /\ \A w \in writes :
            /\ w.side = "carddav" => w.id \notin EmptyUnlinkedC
            /\ (w.side = "google" /\ w.id \in EmptyUnlinkedG) => w.op = "update"

\* a run met a vCard and a Google contact, both without content and unlinked,
\* and created each of them on the other side
C25_Witness ==
    /\ pc = "idle" /\ runs > 0 /\ ~dry
    /\ EmptyUnlinkedC # {} /\ EmptyUnlinkedG # {}
    /\ \E w \in writes : w.op = "create" /\ w.side = "google" /\ w.ok
    /\ \E w \in writes : w.op = "create" /\ w.side = "carddav" /\ w.ok

(***************************************************************************)
(* Failures of single records (contacts sync.py lines 510-638, task        *)
(* sync.py lines 572-642 and 688-761).                                     *)
(***************************************************************************)
\* C26: a failure while one record is processed does not abort the run and
\* is counted in the run's error statistic: a run of the task sync in which a
\* remote write failed has counted at least one error.
C26_RecordFailureCounted == (\E w \in t_writes : ~w.ok) => t_stats > 0

(***************************************************************************)
(* An interrupted run of the contacts sync (sync.py lines 487-488 and      *)
(* 509-665).  The statements of the Reconciliation Phase run in the        *)
(* transaction that sqlite3 opens with the first of them; the only commits *)
(* are the one after the Matching Phase and the one at the end of sync().  *)
(* A process that ends between two records leaves the store as of the last *)
(* commit.                                                                 *)
(***************************************************************************)
Interrupt ==
    /\ pc = "sync"
    /\ all_uids # {}
    /\ pc' = "idle"
    /\ dbw' = db
    /\ UNCHANGED <<google, carddav, db, dry, c_contacts, g_linked, g_unlinked,
                   c_unlinked_uids, matched, state, all_uids, g_pending, stats, fresh,
                   runs, writes, conflicts, aborted, db0, google0, carddav0, paired,
                   fails, userOps, hist>>
    /\ UNCHANGED <<tvars, bvars, refused>>

NextInterrupt == Next \/ Interrupt

SpecInterrupt == Init /\ [][NextInterrupt]_vars

\* C27: when a run is interrupted between two records of the Reconciliation
\* Phase, the Link changes made for the records processed so far are in the
\* Link State Store that the next run reads.
C27_InterruptKeepsLinks == [][Interrupt => db' = dbw]_vars

(***************************************************************************)
(* Conflict resolution of the task sync (sync.py lines 1-5, 625-628 and    *)
(* 737-741).                                                               *)
(***************************************************************************)
\* instant a is after instant b; a stamp is <<day, separator, time of day>>
Later(a, b) == a[1] > b[1] \/ (a[1] = b[1] /\ a[3] > b[3])

\* the step sends a write for uid to the given side
WritesTo(side, uid) == \E w \in t_writes' \ t_writes : w.side = side /\ w.uid = uid

\* sweep 1 writes over the existing page of an open VTODO
SweepOneOverwrites(uid) ==
    /\ t_pc = "c2n" /\ t_pending # {} /\ uid = Min(t_pending)
    /\ parse_vtodo(t_todos[uid], uid, t_clock).status # "Completato"
    /\ uid \in DOMAIN t_uid_map /\ t_uid_map[uid] # <<>>
    /\ WritesTo("notion", uid)

\* sweep 2 writes the page of an open task over the VTODO that sweep 1 read
SweepTwoOverwrites(uid) ==
    /\ t_pc = "n2c" /\ t_pending # {} /\ uid = Min(t_pending)
    /\ ~parse_notion_page(t_pages[uid], uid).completato
    /\ uid \in DOMAIN t_state.caldav_modified /\ t_state.caldav_modified[uid] # <<>>
    /\ WritesTo("caldav", uid)

\* C28: outside the completion handling the task sync writes a record over
\* its counterpart only when the source was modified strictly later than the
\* target; with equal last-modified instants neither sweep writes.
C28_NewerSideWins ==
    [][\A uid \in 1..MaxTasks :
        /\ SweepOneOverwrites(uid) =>
                Later(parse_vtodo(t_todos[uid], uid, t_clock).last_modified, t_uid_map[uid])
        /\ SweepTwoOverwrites(uid) =>
                Later(parse_notion_page(t_pages[uid], uid).last_modified,
                      t_state.caldav_modified[uid])]_vars

(***************************************************************************)
(* update_caldav_todo under with_retry (sync.py lines 533-548, 132-158).   *)
(***************************************************************************)
\* C30: a CalDAV write of update_caldav_todo that the server refuses is tried
\* again, MAX_RETRIES attempts in all unless the breaker trips first, and the
\* failed attempts raise the error counter of the breaker.
C30_CalDAVWriteRetried ==
    [][(\E w \in t_writes' \ t_writes : w.side = "caldav" /\ ~w.ok) =>
            /\ t_call'.calls = MAX_RETRIES \/ circuit_breaker_triggered'
            /\ circuit_breaker_errors' > circuit_breaker_errors]_vars


(***************************************************************************)
(*                                                                         *)
(* Part III.  notion-backup: main() and its two workers                    *)
(* (src/notion-backup/backup.py lines 551-622).                            *)
(*                                                                         *)
(* A step of a thread is one statement of it.  run_track1 and run_track2   *)
(* are taken as calls that end: by the counts, by True or False, or by an  *)
(* exception.                                                              *)
(***************************************************************************)
\* the largest counts run_track1 returns in this model
MaxPages == 2
MaxDbs == 1

\* t1.start() and t2.start() (lines 586-587)
StartTrack1 ==
    /\ b_main = "start"
    /\ b_main' = "started1"
    /\ track1' = "run"
    /\ UNCHANGED <<results, track2, b_ret1, b_ret2, b_wrote, b_notified, b_snapshots, b_git>>
    /\ UNCHANGED <<cvars, tvars>>

StartTrack2 ==
    /\ b_main = "started1"
    /\ b_main' = "started2"
    /\ track2' = "run"
    /\ UNCHANGED <<results, track1, b_ret1, b_ret2, b_wrote, b_notified, b_snapshots, b_git>>
    /\ UNCHANGED <<cvars, tvars>>

\* a faulty t1.join() that does not wait for the thread; C29 tells it from
\* JoinTrack1
JoinTrack1NoWait ==
    /\ b_main = "started2"
    /\ b_main' = "joined1"
    /\ UNCHANGED <<results, track1, track2, b_ret1, b_ret2, b_wrote, b_notified,
                   b_snapshots, b_git>>
    /\ UNCHANGED <<cvars, tvars>>

\* t1.join() and t2.join() (lines 588-589): main waits for the thread's end
JoinTrack1 ==
    /\ b_main = "started2"
    /\ track1 = "end"
    /\ b_main' = "joined1"
    /\ UNCHANGED <<results, track1, track2, b_ret1, b_ret2, b_wrote, b_notified,
                   b_snapshots, b_git>>
    /\ UNCHANGED <<cvars, tvars>>

JoinTrack2 ==
    /\ b_main = "joined1"
    /\ track2 = "end"
    /\ b_main' = "joined2"
    /\ UNCHANGED <<results, track1, track2, b_ret1, b_ret2, b_wrote, b_notified,
                   b_snapshots, b_git>>
    /\ UNCHANGED <<cvars, tvars>>

\* track1_worker (lines 566-573): run_track1 raises, or returns the two
\* counts, which the worker then stores slot by slot
Track1Run ==
    /\ track1 = "run"
    /\ \/ /\ track1' = "end"
          /\ b_ret1' = b_ret1
       \/ \E pages \in 0..MaxPages : \E dbs \in 0..MaxDbs :
            /\ track1' = "page_count"
            /\ b_ret1' = <<pages, dbs>>
    /\ UNCHANGED <<results, b_main, track2, b_ret2, b_wrote, b_notified, b_snapshots, b_git>>
    /\ UNCHANGED <<cvars, tvars>>

Track1Store ==
    /\ track1 \in {"page_count", "db_count", "t1_ok"}
    /\ results' = [results EXCEPT ![track1] = CASE track1 = "page_count" -> b_ret1[1]
                                                [] track1 = "db_count" -> b_ret1[2]
                                                [] track1 = "t1_ok" -> TRUE]
    /\ b_wrote' = b_wrote \cup {<<"Track1", track1>>}
    /\ track1' = CASE track1 = "page_count" -> "db_count"
                    [] track1 = "db_count" -> "t1_ok"
                    [] track1 = "t1_ok" -> "end"
    /\ UNCHANGED <<b_main, track2, b_ret1, b_ret2, b_notified, b_snapshots, b_git>>
    /\ UNCHANGED <<cvars, tvars>>

\* track2_worker (lines 575-579): run_track2 raises, or returns True or False,
\* which the worker stores
Track2Run ==
    /\ track2 = "run"
    /\ \/ /\ track2' = "end"
          /\ b_ret2' = b_ret2
       \/ \E ok \in BOOLEAN :
            /\ track2' = "t2_ok"
            /\ b_ret2' = ok
    /\ UNCHANGED <<results, b_main, track1, b_ret1, b_wrote, b_notified, b_snapshots, b_git>>
    /\ UNCHANGED <<cvars, tvars>>

Track2Store ==
    /\ track2 = "t2_ok"
    /\ results' = [results EXCEPT !.t2_ok = b_ret2]
    /\ b_wrote' = b_wrote \cup {<<"Track2", "t2_ok">>}
    /\ track2' = "end"
    /\ UNCHANGED <<b_main, track1, b_ret1, b_ret2, b_notified, b_snapshots, b_git>>
    /\ UNCHANGED <<cvars, tvars>>

\* the report after the join (lines 591-611): the first reads of the slots
\* and the notification when Track 1 failed
Report ==
    /\ b_main = "joined2"
    /\ b_main' = "reported"
    /\ b_notified' = ~results.t1_ok
    /\ UNCHANGED <<results, track1, track2, b_ret1, b_ret2, b_wrote, b_snapshots, b_git>>
    /\ UNCHANGED <<cvars, tvars>>

\* lines 613-617: take_snapshots() inside its try, when Track 1 succeeded
Snapshots ==
    /\ b_main = "reported"
    /\ results.t1_ok
    /\ b_main' = "snapped"
    /\ \E r \in {"ok", "raised"} : b_snapshots' = r
    /\ UNCHANGED <<results, track1, track2, b_ret1, b_ret2, b_wrote, b_notified, b_git>>
    /\ UNCHANGED <<cvars, tvars>>

\* line 618: git_commit(results["page_count"], results["db_count"])
GitCommit ==
    /\ b_main = "snapped"
    /\ b_main' = "done"
    /\ b_git' = <<results.page_count, results.db_count>>
    /\ UNCHANGED <<results, track1, track2, b_ret1, b_ret2, b_wrote, b_notified,
                   b_snapshots>>
    /\ UNCHANGED <<cvars, tvars>>

\* lines 619-620: no snapshots and no commit when Track 1 did not succeed
SkipCommit ==
    /\ b_main = "reported"
    /\ ~results.t1_ok
    /\ b_main' = "done"
    /\ UNCHANGED <<results, track1, track2, b_ret1, b_ret2, b_wrote, b_notified,
                   b_snapshots, b_git>>
    /\ UNCHANGED <<cvars, tvars>>

MainStep ==
    \/ StartTrack1
    \/ StartTrack2
    \/ JoinTrack1
    \/ JoinTrack2
    \/ Report
    \/ Snapshots
    \/ GitCommit
    \/ SkipCommit

Track1Step == Track1Run \/ Track1Store

Track2Step == Track2Run \/ Track2Store

InitBackup == ContactsAtRest /\ TasksAtRest

NextBackup == MainStep \/ Track1Step \/ Track2Step

SpecBackup == InitBackup /\ [][NextBackup]_vars

\* every started thread is scheduled again and again, and a track that was
\* called ends
SpecBackupLive ==
    SpecBackup /\ WF_vars(MainStep) /\ WF_vars(Track1Step) /\ WF_vars(Track2Step)

\* main is past the line that first reads a result slot
ReadSlots == b_main \in {"reported", "snapped", "done"}
BothEnded == track1 = "end" /\ track2 = "end"
OwnSlots ==
    b_wrote \subseteq {<<"Track1", "page_count">>, <<"Track1", "db_count">>,
                       <<"Track1", "t1_ok">>, <<"Track2", "t2_ok">>}

\* C29: the two tracks of main() run as concurrent workers and neither stops
\* the other: whatever the interleaving and whichever track fails, both
\* workers end and main finishes; main reads a result slot only after it
\* joined both workers; each worker writes its own slots only; snapshots and
\* git commit run only after both workers ended and only if Track 1 succeeded.
C29_TracksIndependent ==
    /\ [](ReadSlots => BothEnded)
    /\ []OwnSlots
    /\ []((b_snapshots # "no" \/ b_git # <<>>) => (BothEnded /\ results.t1_ok))
    /\ <>(BothEnded /\ b_main = "done")

\* Track 1 raised while Track 2 stored True, and main finished without
\* snapshots and without commit
C29_Witness ==
    /\ b_main = "done" /\ BothEnded
    /\ ~results.t1_ok /\ results.t2_ok
    /\ b_notified /\ b_snapshots = "no" /\ b_git = <<>>


(***************************************************************************)
(* The breaker's counter (vtodo-notion sync.py lines 132-174).             *)
(***************************************************************************)
\* how many of the attempts made by the call recorded in c failed in one of
\* the given ways
FailedAttempts(c, ways) ==
    Cardinality({i \in 1..c.calls : c.outs[i] \in ways})

\* the counter is at most the threshold, and the flag is up exactly when the
\* counter is at the threshold
CounterBounded ==
    /\ circuit_breaker_errors <= CIRCUIT_BREAKER_THRESHOLD
    /\ circuit_breaker_triggered <=> circuit_breaker_errors = CIRCUIT_BREAKER_THRESHOLD

\* a call under with_retry leaves the counter at 0 when the wrapped function
\* returned, and else at what it was plus the failed attempts of the given ways
CounterFollows(ways) ==
    IF t_call'.res = "true" THEN circuit_breaker_errors' = 0
    ELSE circuit_breaker_errors' = circuit_breaker_errors + FailedAttempts(t_call', ways)

\* C31, as stated: the breaker trips on consecutive failures only: a wrapped
\* call that returns resets the counter to 0, the counter never exceeds
\* CIRCUIT_BREAKER_THRESHOLD, and the flag is up exactly when 10 failed
\* attempts, of whatever kind, came with no successful call in between.
C31_TripsOnTenFailures ==
    []CounterBounded /\ [][CounterFollows({"err", "400"})]_vars

\* C31, amended: as above, where the failed attempts that count are the ones
\* that are retried; an attempt that ends in a validation error (status 400)
\* neither raises nor resets the counter.
C31_TripsOnTenCountedFailures ==
    []CounterBounded /\ [][CounterFollows({"err"})]_vars

\* a call found the counter at 9 and the breaker open to calls, met a failure
\* and tripped the breaker
C31_Witness ==
    /\ t_call.errs0 = CIRCUIT_BREAKER_THRESHOLD - 1 /\ ~t_call.trig0
    /\ t_call.calls = 1 /\ t_call.outs[1] = "err"
    /\ circuit_breaker_triggered
    /\ circuit_breaker_errors = CIRCUIT_BREAKER_THRESHOLD


(***************************************************************************)
(* Contacts sync: worlds with duplicates.  Three records that no Link      *)
(* knows, vCards or Google contacts without vCard-UID, named "Ann" or      *)
(* "ann " (one fingerprint) or left out, so that a side can hold two       *)
(* records of one fingerprint next to a record of the other side.          *)
(***************************************************************************)
DupContacts == 3

DupKinds ==
    {NoContact} \cup {NewOnCardDAV(n) : n \in {"Ann", "ann "}}
                \cup {NewOnGoogle(n) : n \in {"Ann", "ann "}}

InitDup == TasksAtRest /\ \E pop \in [1..DupContacts -> DupKinds] : InitWith(pop)

NextDup == Next

SpecDup == InitDup /\ [][NextDup]_vars

(***************************************************************************)
(* Records of one fingerprint (contacts sync.py lines 431-460).            *)
(***************************************************************************)
\* the records the run found without Link: Google contacts without
\* vCard-UID (by resource name) and vCards that neither the store nor a
\* Google contact names (by href), and those of them with fingerprint fp
UnlinkedG0 == {r \in DOMAIN google0 : google0[r].ext = 0}
UnlinkedC0 ==
    {h \in DOMAIN carddav0 :
        /\ carddav0[h].uid \notin DOMAIN db0
        /\ \A r \in DOMAIN google0 : google0[r].ext # carddav0[h].uid}
SameFpG0(fp) == {r \in UnlinkedG0 : FingerprintOfName(google0[r].name) = fp}
SameFpC0(fp) == {h \in UnlinkedC0 : FingerprintOfName(carddav0[h].fn) = fp}

\* C32: of several unlinked records of one side with the same fingerprint the
\* Matching Phase pairs the one fetched first, on the Google side and on the
\* CardDAV side.
C32_FirstSeenPaired ==
    \A u \in DOMAIN paired :
        LET fp == fingerprint_from_vcard(c_contacts[u].vcard)
        IN  /\ paired[u] = Min(SameFpG0(fp))
            /\ c_contacts[u].href = Min(SameFpC0(fp))

\* the duplicates of the run: unlinked records that share the fingerprint of
\* a pair and are not in it
DupC0 ==
    {h \in UnlinkedC0 :
        \E u \in DOMAIN paired :
            /\ fingerprint_from_vcard(c_contacts[u].vcard) = FingerprintOfName(carddav0[h].fn)
            /\ c_contacts[u].href # h}
DupG0 ==
    {r \in UnlinkedG0 :
        \E u \in DOMAIN paired :
            /\ fingerprint_from_vcard(c_contacts[u].vcard) = FingerprintOfName(google0[r].name)
            /\ paired[u] # r}

\* C33: the run leaves the duplicates beyond the paired record unlinked: it
\* makes no Link for them and creates no counterpart for them on the other
\* side.
C33_DuplicatesLeftUnlinked ==
    /\ \A h \in DupC0 :
            /\ carddav0[h].uid \notin DOMAIN dbw
            /\ \A r \in DOMAIN google : google[r].ext # carddav0[h].uid
    /\ \A r \in DupG0 :
            /\ \A u \in DOMAIN dbw : dbw[u].google_res # r
            /\ r \in DOMAIN google => google[r].ext = 0

\* C34: the Matching Phase takes into its fingerprint pools only records that
\* no Link of the store refers to: no Google record whose resource name is in
\* a Link, no vCard whose UID is a key of the store.
C34_PoolsHoldUnlinkedOnly ==
    /\ \A r \in DOMAIN g_unlinked :
            fingerprint_from_google(g_unlinked[r]) # "" =>
                \A u \in DOMAIN db0 : db0[u].google_res # r
    /\ \A u \in c_unlinked_uids : u \notin DOMAIN db0

\* C35: a pair matched by fingerprint gets its Link only after the anchor,
\* the CardDAV UID as vCard-UID, was written to the Google record with
\* success; without that write there is no Link for the pair.
C35_LinkAfterAnchor ==
    pc = "match" =>
        \A u \in (DOMAIN paired \cap DOMAIN dbw) \ DOMAIN db0 :
            /\ Write("update", "google", paired[u], TRUE) \in writes
            /\ paired[u] \in DOMAIN google /\ google[paired[u]].ext = u


(***************************************************************************)
(* One side changed (contacts sync.py lines 586-622).                      *)
(***************************************************************************)
\* the loop is at a Link with both records of which exactly one has an etag
\* other than the stored one
OneSideChanged(uid) ==
    /\ uid \in DOMAIN state /\ uid \in DOMAIN g_linked /\ uid \in DOMAIN c_contacts
    /\ (g_linked[uid].etag # state[uid].etag_google)
            # (c_contacts[uid].etag # state[uid].etag_carddav)

\* the step is an iteration of the loop that counted no error, outside DRY_RUN
CleanIteration ==
    /\ pc = "sync" /\ all_uids # {} /\ all_uids' # all_uids
    /\ ~dry /\ stats'.errors = stats.errors

\* after the step the other side has the content of the changed side, the
\* changed side is as it was, and the Link holds the etags both records have
PropagatedOneWay(uid) ==
    LET s == state[uid]
        g == g_linked[uid]
        c == c_contacts[uid]
        res == ResName(s, g)
    IN  /\ uid \in DOMAIN dbw'
        /\ res \in DOMAIN google' /\ c.href \in DOMAIN carddav'
        /\ dbw'[uid].etag_google = google'[res].etag
        /\ dbw'[uid].etag_carddav = carddav'[c.href].etag
        /\ IF g.etag # s.etag_google
           THEN google' = google /\ carddav'[c.href].fn = google_to_vcard(g, uid).fn
           ELSE carddav' = carddav /\ google'[res].name = vcard_to_google(c.vcard, uid).name

\* C36: for a Link of which exactly one side's etag differs from the stored
\* one, a run without failure writes that side's content to the other side
\* only, and the Link then stores the current etags of both records.
C36_OneSidePropagates ==
    [][(CleanIteration /\ OneSideChanged(Min(all_uids))) =>
            PropagatedOneWay(Min(all_uids))]_vars

\* records that were on one side only, with no Link, when the run started: a
\* vCard whose UID is in no Link and on no Google record and whose fingerprint
\* no unlinked Google record has; a Google record carrying a vCard-UID that is
\* in no Link and on no vCard; a Google record without vCard-UID that no Link
\* names and whose fingerprint no unlinked vCard has
OnlyCardDAV0 ==
    {h \in UnlinkedC0 :
        LET fp == FingerprintOfName(carddav0[h].fn) IN fp = "" \/ SameFpG0(fp) = {}}
OnlyGoogleWithUid0 ==
    {r \in DOMAIN google0 :
        /\ google0[r].ext # 0
        /\ google0[r].ext \notin DOMAIN db0
        /\ \A h \in DOMAIN carddav0 : carddav0[h].uid # google0[r].ext}
OnlyGoogleNoUid0 ==
    {r \in UnlinkedG0 :
        /\ \A u \in DOMAIN db0 : db0[u].google_res # r
        /\ LET fp == FingerprintOfName(google0[r].name) IN fp = "" \/ SameFpC0(fp) = {}}

\* a Link under `u` names Google record `r` and vCard `h`, both exist and
\* carry `u`, and no other record of either side carries `u`
LinkedOnce(u, r, h) ==
    /\ u \in DOMAIN db /\ db[u].google_res = r /\ db[u].carddav_href = h
    /\ {x \in DOMAIN google : google[x].ext = u} = {r}
    /\ {x \in DOMAIN carddav : carddav[x].uid = u} = {h}

\* the counterpart of each one-sided record exists, made from its data, and
\* one Link names the two
CounterpartsCreated ==
    /\ \A h \in OnlyCardDAV0 :
         \E r \in DOMAIN google :
            /\ LinkedOnce(carddav0[h].uid, r, h)
            /\ google[r].name = vcard_to_google(carddav0[h], carddav0[h].uid).name
    /\ \A r \in OnlyGoogleWithUid0 :
         \E h \in DOMAIN carddav :
            /\ LinkedOnce(google0[r].ext, r, h)
            /\ carddav[h].fn = google_to_vcard(Person(google0, r), google0[r].ext).fn
    /\ \A r \in OnlyGoogleNoUid0 :
         \E h \in DOMAIN carddav :
            /\ LinkedOnce(carddav[h].uid, r, h)
            /\ carddav[h].fn = google_to_vcard(Person(google0, r), carddav[h].uid).fn

C37_WitnessWithUid == RunSucceeded /\ ~dry /\ OnlyGoogleWithUid0 # {}

(***************************************************************************)
(* A third party at work during the run.  get_all_contacts is called once  *)
(* per side at the start of sync() (lines 410-420) and the writes of the   *)
(* Reconciliation Phase carry the etags fetched then (CardDAVClient.put,   *)
(* lines 263-269, If-Match; GoogleClient.update, lines 331-341, the etag   *)
(* in the body).  Another client of the addressbook or of Google Contacts  *)
(* may edit a record between the fetch and the write.                      *)
(***************************************************************************)
ThirdPartyEdit(g, c) ==
    /\ pc \in {"match", "sync"}
    /\ userOps < MaxUserOps
    /\ google' = g
    /\ carddav' = c
    /\ userOps' = userOps + 1
    /\ fresh' = fresh + 1
    /\ UNCHANGED <<db, dbw, pc, dry, c_contacts, g_linked, g_unlinked, c_unlinked_uids,
                   matched, state, all_uids, g_pending, stats, runs, writes, conflicts,
                   aborted, db0, google0, carddav0, paired, fails, refused, hist>>
    /\ UNCHANGED <<tvars, bvars>>

ThirdPartyEditGoogle ==
    \E r \in DOMAIN google :
        ThirdPartyEdit([google EXCEPT ![r].etag = fresh + 1, ![r].name = EditNameG], carddav)

ThirdPartyEditCardDAV ==
    \E h \in DOMAIN carddav :
        ThirdPartyEdit(google, [carddav EXCEPT ![h].etag = fresh + 1, ![h].fn = EditNameC])

NextRace == Next \/ ThirdPartyEditGoogle \/ ThirdPartyEditCardDAV

SpecRace == Init /\ [][NextRace]_vars

\* the step is the iteration for `uid`
IterationOf(uid) == pc = "sync" /\ all_uids # {} /\ uid = Min(all_uids) /\ all_uids' # all_uids

\* the record the update of `uid` writes to no longer has the etag fetched
TargetStale(uid) ==
    LET s == state[uid]
        g == g_linked[uid]
        c == c_contacts[uid]
    IN  IF g.etag # s.etag_google
        THEN c.href \in DOMAIN carddav /\ carddav[c.href].etag # c.etag
        ELSE ResName(s, g) \in DOMAIN google /\ google[ResName(s, g)].etag # g.etag

\* the iteration sent an update for `uid` and the server refused it for the
\* stale etag
StaleRefusal(uid) ==
    /\ IterationOf(uid)
    /\ <<runs, uid>> \in refused' \ refused
    /\ TargetStale(uid)

\* the iteration for `uid` took the conflict case and let Google win: it
\* logged the conflict, left Google alone, and what it wrote to the vCard is
\* Google's content
GoogleWon(uid) ==
    /\ BothChanged(uid)
    /\ uid \in conflicts'
    /\ google' = google
    /\ carddav' # carddav =>
          carddav'[c_contacts[uid].href].fn = google_to_vcard(g_linked[uid], uid).fn

\* C38: when the update of a Link is refused because the target was edited
\* between the fetch and the write, the target is not overwritten and the
\* Link keeps its etags; and the iteration of the next run for an identifier
\* refused so in the run before takes the case "both changed", Google winning.
C38_StaleWriteRefused ==
    [][/\ \A uid \in DOMAIN state : StaleRefusal(uid) =>
             (google' = google /\ carddav' = carddav /\ dbw' = dbw
              /\ stats'.errors = stats.errors + 1)
       /\ \A uid \in DOMAIN state \cap DOMAIN g_linked \cap DOMAIN c_contacts :
             (IterationOf(uid) /\ <<runs - 1, uid>> \in refused) => GoogleWon(uid)]_vars

\* the step is the iteration of the sweep Notion -> CalDAV that archives the
\* page of `uid`
ArchivesPage(uid) ==
    /\ t_pc = "n2c" /\ t_pending # {} /\ uid = Min(t_pending)
    /\ uid \in DOMAIN t_notion /\ uid \notin DOMAIN t_notion'

\* the same iteration wrote STATUS:COMPLETED to the VTODO of `uid`, with success
CompletedWritten(uid) ==
    /\ \E w \in t_writes' \ t_writes :
          w.side = "caldav" /\ w.uid = uid /\ w.status = "COMPLETED" /\ w.ok
    /\ uid \in DOMAIN t_caldav' /\ t_caldav'[uid].status = "COMPLETED"

\* C39: the sweep Notion -> CalDAV archives the page of a completed task
\* without repetition rule only when the same iteration has written
\* STATUS:COMPLETED to the VTODO with success; with no calendar found, a
\* failed write or a write skipped by the breaker the page stays.
C39_ArchivedOnlyAfterCalDAVWrite ==
    [][\A uid \in DOMAIN t_notion : ArchivesPage(uid) => CompletedWritten(uid)]_vars

\* the ten cases of the loop body and the condition each is written under
\* (the `if`s of lines 517-626, each read on its own)
CaseNames ==
    {"drop", "delete_carddav", "delete_google", "create_google", "create_carddav",
     "adopt", "skip", "to_carddav", "to_google", "conflict"}

CaseHolds(k, uid) ==
    LET s == uid \in DOMAIN state
        g == uid \in DOMAIN g_linked
        c == uid \in DOMAIN c_contacts
        g_changed == g_linked[uid].etag # state[uid].etag_google
        c_changed == c_contacts[uid].etag # state[uid].etag_carddav
    IN  CASE k = "drop"           -> s /\ ~g /\ ~c
          [] k = "delete_carddav" -> s /\ ~g /\ c
          [] k = "delete_google"  -> s /\ g /\ ~c
          [] k = "create_google"  -> ~s /\ c /\ ~g
          [] k = "create_carddav" -> ~s /\ g /\ ~c
          [] k = "adopt"          -> ~s /\ g /\ c
          [] k = "skip"           -> s /\ g /\ c /\ ~g_changed /\ ~c_changed
          [] k = "to_carddav"     -> s /\ g /\ c /\ g_changed /\ ~c_changed
          [] k = "to_google"      -> s /\ g /\ c /\ c_changed /\ ~g_changed
          [] k = "conflict"       -> s /\ g /\ c /\ g_changed /\ c_changed

\* the statistic each case counts when it goes through
StatOfCase(k) ==
    CASE k \in {"drop", "delete_carddav", "delete_google"} -> "deleted"
      [] k = "create_google"  -> "g_created"
      [] k = "create_carddav" -> "c_created"
      [] k \in {"adopt", "skip"} -> "skipped"
      [] k \in {"to_carddav", "conflict"} -> "c_updated"
      [] k = "to_google" -> "g_updated"

\* the iteration for `uid` took case `k`: it sent at most one request, to one
\* side, counted the statistic of `k` or one error and nothing else, and sent
\* nothing at all when `k` is adopt, both-sides-gone or skip
OneCaseTaken(uid, k) ==
    /\ Cardinality(writes' \ writes) <= 1
    /\ google' = google \/ carddav' = carddav
    /\ \E st \in {StatOfCase(k), "errors"} : stats' = [stats EXCEPT ![st] = @ + 1]
    /\ stats'.errors # stats.errors => \E w \in writes' \ writes : ~w.ok
    /\ k \in {"adopt", "drop", "skip"} =>
          (writes' = writes /\ google' = google /\ carddav' = carddav)
    /\ all_uids' = all_uids \ {uid}

\* C40: the loop visits the union of the Link keys, the linked Google
\* identifiers and the CardDAV identifiers; each identifier meets exactly one
\* of the ten cases, at most one request is sent for it, exactly one
\* statistic is counted for it, and adopt and both-sides-gone send nothing.
C40_OneCasePerIdentifier ==
    [][/\ (pc = "match" /\ pc' = "sync") =>
             all_uids' = DOMAIN state' \cup DOMAIN g_linked' \cup DOMAIN c_contacts'
       /\ \A uid \in all_uids :
             /\ Cardinality({k \in CaseNames : CaseHolds(k, uid)}) = 1
             /\ IterationOf(uid) =>
                   \A k \in CaseNames : CaseHolds(k, uid) => OneCaseTaken(uid, k)]_vars

\* an iteration outside DRY_RUN has adopted a pair found on both sides
\* without Link: the Link is stored, one skip is counted, nothing was sent
C40_Witness ==
    /\ pc = "sync" /\ ~dry
    /\ \E uid \in (DOMAIN g_linked \cap DOMAIN c_contacts) \ all_uids :
          /\ CaseHolds("adopt", uid)
          /\ uid \in DOMAIN dbw
          /\ stats.skipped >= 1
          /\ writes = {}

================================================================
